---- MODULE Spec2Model ----
(***************************************************************************)
(* Model of the SVN MCP server's command execution layer:                  *)
(*   src/common/utils.ts   (lines 380-863, the current copy of the file)   *)
(*   src/tools/svn-service.ts (lines 1-679, the current copy of the class) *)
(*                                                                         *)
(* Text.  A JavaScript string is modelled as a sequence of units.  A unit  *)
(* of one character is that character; a longer unit is a run of literal   *)
(* text made of letters, digits and message prose that no operator has to  *)
(* look inside ("http", "E155007", "Failed to ").  The text of a string is *)
(* the concatenation of its units.  The input alphabets never contain the  *)
(* single letters of a word that an operator searches for, so a search for *)
(* a word is a search for its unit.                                        *)
(***************************************************************************)
EXTENDS Integers, Sequences, FiniteSets, TLC

----------------------------------------------------------------------------
(* Bounds *)

\* longest string, in units, of the validator inputs
MaxStrLen == 4
\* number of pieces a path argument of a service call is assembled from
MaxPieces == 2
\* number of data events one child delivers over its two streams
MaxData == 1
\* number of paths in a path array (add, delete, revert, commit)
MaxPaths == 2

\* longest string, in units, handed to the two validators together
MaxUrlLen == 5

\* number of lines of a text handed to a parser on its own
MaxLines == 2
\* number of blocks of a log text
MaxBlocks == 2
\* number of invocations of executeSvnCommand in flight at once
MaxInFlight == 2

----------------------------------------------------------------------------
(* JavaScript values *)

\* the value undefined of an optional string
Undefined == <<"undefined">>

\* the exit code null that 'close' reports for a child ended by a signal
NullCode == -1

\* JavaScript truthiness of an optional string
Truthy(s) == s # Undefined /\ s # <<>>

RECURSIVE Join(_, _)
\* Array.prototype.join
Join(ss, sep) ==
  IF ss = <<>> THEN <<>>
  ELSE IF Len(ss) = 1 THEN Head(ss)
  ELSE Head(ss) \o sep \o Join(Tail(ss), sep)

\* String.prototype.includes
Includes(s, pat) ==
  \E i \in 1..(Len(s) - Len(pat) + 1) : SubSeq(s, i, i + Len(pat) - 1) = pat

\* the characters \s matches
WhiteSpace == {" ", "\n", "\r", "\t"}

RECURSIVE TrimStart(_)
TrimStart(s) ==
  IF s # <<>> /\ Head(s) \in WhiteSpace THEN TrimStart(Tail(s)) ELSE s

RECURSIVE TrimEnd(_)
TrimEnd(s) ==
  IF s # <<>> /\ s[Len(s)] \in WhiteSpace THEN TrimEnd(SubSeq(s, 1, Len(s) - 1)) ELSE s

\* String.prototype.trim
Trim(s) == TrimEnd(TrimStart(s))

RECURSIVE Split(_, _)
\* String.prototype.split on a one-character separator
Split(s, sep) ==
  IF \A i \in 1..Len(s) : s[i] # sep THEN <<s>>
  ELSE LET k == CHOOSE i \in 1..Len(s) : s[i] = sep /\ \A j \in 1..(i - 1) : s[j] # sep
       IN  <<SubSeq(s, 1, k - 1)>> \o Split(SubSeq(s, k + 1, Len(s)), sep)

\* the strings of at most n units over an alphabet
StringsUpTo(alphabet, n) == UNION {[1..k -> alphabet] : k \in 0..n}

\* the text of a number, as template literals print it
NumText(n) ==
  CASE n = 0 -> "0"
    [] n = 1 -> "1"
    [] n = 2 -> "2"
    [] n = 127 -> "127"
    [] n = 5000 -> "5000"
    [] n = 30000 -> "30000"
    [] n = NullCode -> "null"

----------------------------------------------------------------------------
(* Path / URL validation, src/common/utils.ts *)

\* the single letters of the alphabets: candidates for a drive letter
Letters == {"a", "C"}

\* /[<>:"|?*]/
InvalidChars == {"<", ">", ":", "\"", "|", "?", "*"}

HasInvalidChar(s) == \E i \in 1..Len(s) : s[i] \in InvalidChars

\* /^[A-Za-z]:[\\\/]/
windowsAbsolutePathPattern(s) ==
  /\ Len(s) >= 3
  /\ s[1] \in Letters
  /\ s[2] = ":"
  /\ s[3] \in {"\\", "/"}

\* validatePath without the drive-letter carve-out, as in an earlier revision
validatePathNoDrive(filePath) == ~HasInvalidChar(filePath)

validatePath(filePath) ==
  IF windowsAbsolutePathPattern(filePath)
  THEN ~HasInvalidChar(SubSeq(filePath, 3, Len(filePath)))
  ELSE ~HasInvalidChar(filePath)

\* the i flag of the URL pattern: lower case of a scheme word
LowerCase(u) ==
  CASE u = "HTTP" -> "http"
    [] u = "SVN" -> "svn"
    [] OTHER -> u

\* (svn|https?|file)
UrlSchemes == {"svn", "http", "https", "file"}

\* the characters . does not match
LineTerminators == {"\n", "\r"}

\* a URL pattern that takes any word or letter for the scheme
validateSvnUrlAnyScheme(url) ==
  /\ Len(url) >= 5
  /\ url[1] \notin {":", "/", "\\", "\n"}
  /\ url[2] = ":"
  /\ url[3] = "/"
  /\ url[4] = "/"
  /\ url[5] \notin LineTerminators

\* /^(svn|https?|file):\/\/.+/i
validateSvnUrl(url) ==
  /\ Len(url) >= 5
  /\ LowerCase(url[1]) \in UrlSchemes
  /\ url[2] = ":"
  /\ url[3] = "/"
  /\ url[4] = "/"
  /\ url[5] \notin LineTerminators

----------------------------------------------------------------------------
(* Path normalisation.  SvnService calls normalizePath with one argument,   *)
(* the signature of src/common/utils.ts:47; path.resolve has its POSIX      *)
(* meaning.                                                                 *)

\* process.cwd()
Cwd == <<"/", "cwd">>

RECURSIVE ResolveSegments(_, _)
\* path.resolve's normalisation of the segments between slashes
ResolveSegments(segs, acc) ==
  IF segs = <<>> THEN acc
  ELSE LET seg == Head(segs)
       IN  IF seg = <<>> \/ seg = <<".">> THEN ResolveSegments(Tail(segs), acc)
           ELSE IF seg = <<".", ".">>
                THEN ResolveSegments(Tail(segs),
                       IF acc = <<>> THEN acc ELSE SubSeq(acc, 1, Len(acc) - 1))
                ELSE ResolveSegments(Tail(segs), Append(acc, seg))

\* path.resolve(filePath)
PathResolve(filePath) ==
  LET abs == IF filePath # <<>> /\ Head(filePath) = "/"
             THEN filePath
             ELSE Cwd \o <<"/">> \o filePath
  IN  <<"/">> \o Join(ResolveSegments(Split(abs, "/"), <<>>), <<"/">>)

\* .replace(/\\/g, '/')
ReplaceBackslashes(s) == [i \in 1..Len(s) |-> IF s[i] = "\\" THEN "/" ELSE s[i]]

normalizePath(filePath) == ReplaceBackslashes(PathResolve(filePath))

----------------------------------------------------------------------------
(* Argument building and the command line, src/common/utils.ts *)

buildAuthArgs(cfg, noAuthCache) ==
     (IF Truthy(cfg.username) THEN << <<"--username">>, cfg.username >> ELSE <<>>)
  \o (IF Truthy(cfg.password) THEN << <<"--password">>, cfg.password >> ELSE <<>>)
  \o << <<"--non-interactive">> >>
  \o (IF noAuthCache THEN << <<"--no-auth-cache">> >> ELSE <<>>)

\* finalArgs with the authentication flags right after the subcommand
FinalArgsAuthFirst(cfg, args, noAuthCache) ==
  <<Head(args)>> \o buildAuthArgs(cfg, noAuthCache) \o Tail(args)

\* finalArgs of executeSvnCommand
FinalArgs(cfg, args, noAuthCache) == args \o buildAuthArgs(cfg, noAuthCache)

\* command of executeSvnCommand: `${config.svnPath} ${finalArgs.join(' ')}`
CommandText(cfg, finalArgs) == cfg.svnPath \o <<" ">> \o Join(finalArgs, <<" ">>)

(* spawn(config.svnPath, finalArgs, {shell: true}): the runtime joins the    *)
(* file and the arguments with spaces and hands the line to the shell.  The *)
(* shell splits the line into commands at its control operators and each   *)
(* command into words at blanks; quoting and expansion are outside the     *)
(* input alphabets.                                                        *)
ShellLine(cfg, finalArgs) == Join(<<cfg.svnPath>> \o finalArgs, <<" ">>)

\* the control operators that end a command
ShellOperators == {";", "&", "|"}

RECURSIVE ShellCommands(_)
\* the commands of a line
ShellCommands(line) ==
  IF \A i \in 1..Len(line) : line[i] \notin ShellOperators THEN <<line>>
  ELSE LET k == CHOOSE i \in 1..Len(line) :
                  line[i] \in ShellOperators /\ \A j \in 1..(i - 1) : line[j] \notin ShellOperators
       IN  <<SubSeq(line, 1, k - 1)>> \o ShellCommands(SubSeq(line, k + 1, Len(line)))

\* the words of a command
ShellWords(cmd) == SelectSeq(Split(cmd, " "), LAMBDA w : w # <<>>)

\* the argument vector the first command's executable is started with
ShellArgv(cfg, finalArgs) ==
  LET words == ShellWords(Head(ShellCommands(ShellLine(cfg, finalArgs))))
  IN  IF words = <<>> THEN <<>> ELSE Tail(words)

\* the number of commands the shell runs for one spawn
ShellCommandCount(cfg, finalArgs) == Len(ShellCommands(ShellLine(cfg, finalArgs)))

----------------------------------------------------------------------------
(* Output parsing, src/common/utils.ts *)

RECURSIVE ReplaceCrLf(_)
\* .replace(/\r\n/g, '\n').replace(/\r/g, '\n')
ReplaceCrLf(s) ==
  IF s = <<>> THEN <<>>
  ELSE IF Head(s) = "\r"
       THEN IF Len(s) >= 2 /\ s[2] = "\n"
            THEN <<"\n">> \o ReplaceCrLf(Tail(Tail(s)))
            ELSE <<"\n">> \o ReplaceCrLf(Tail(s))
       ELSE <<Head(s)>> \o ReplaceCrLf(Tail(s))

cleanOutput(output) == Trim(ReplaceCrLf(output))

\* SVN_STATUS_CODES, src/common/types.ts:306
SVN_STATUS_CODES(ch) ==
  CASE ch = " " -> "none"
    [] ch = "A" -> "added"
    [] ch = "D" -> "deleted"
    [] ch = "M" -> "modified"
    [] ch = "R" -> "replaced"
    [] ch = "C" -> "conflicted"
    [] ch = "X" -> "external"
    [] ch = "I" -> "ignored"
    [] ch = "?" -> "unversioned"
    [] ch = "!" -> "missing"
    [] ch = "~" -> "obstructed"
    [] OTHER -> "unknown"

\* the column the path of a status line starts after
StatusPathColumn == 8

RECURSIVE StatusOfLines(_)
StatusOfLines(lines) ==
  IF lines = <<>> THEN <<>>
  ELSE LET line == Head(lines)
       IN  IF Len(line) < StatusPathColumn THEN StatusOfLines(Tail(lines))
           ELSE << [path   |-> Trim(SubSeq(line, StatusPathColumn + 1, Len(line))),
                    status |-> SVN_STATUS_CODES(line[1])] >>
                \o StatusOfLines(Tail(lines))

\* parseStatusOutput without the filter: blank lines reach the loop
parseStatusOutputKeepBlank(output) == StatusOfLines(Split(output, "\n"))

parseStatusOutput(output) ==
  StatusOfLines(SelectSeq(Split(output, "\n"), LAMBDA line : Trim(line) # <<>>))

RECURSIVE SplitOn(_, _)
\* String.prototype.split on a separator of several characters
SplitOn(s, sep) ==
  IF ~Includes(s, sep) THEN <<s>>
  ELSE LET k == CHOOSE i \in 1..(Len(s) - Len(sep) + 1) :
                  /\ SubSeq(s, i, i + Len(sep) - 1) = sep
                  /\ \A j \in 1..(i - 1) : SubSeq(s, j, j + Len(sep) - 1) # sep
       IN  <<SubSeq(s, 1, k - 1)>> \o SplitOn(SubSeq(s, k + Len(sep), Len(s)), sep)

Digits == {"0", "1", "2", "3", "4", "5", "6", "7", "8", "9"}

DigitValue(d) ==
  CASE d = "0" -> 0 [] d = "1" -> 1 [] d = "2" -> 2 [] d = "3" -> 3 [] d = "4" -> 4
    [] d = "5" -> 5 [] d = "6" -> 6 [] d = "7" -> 7 [] d = "8" -> 8 [] d = "9" -> 9

RECURSIVE LeadingDigits(_)
\* the longest prefix of digits
LeadingDigits(s) ==
  IF s # <<>> /\ Head(s) \in Digits THEN <<Head(s)>> \o LeadingDigits(Tail(s)) ELSE <<>>

RECURSIVE DecimalValue(_, _)
DecimalValue(ds, acc) ==
  IF ds = <<>> THEN acc ELSE DecimalValue(Tail(ds), 10 * acc + DigitValue(Head(ds)))

\* a number field: not set, NaN, or an integer
NumberNotSet == [set |-> FALSE, nan |-> FALSE, n |-> 0]

NaN == [set |-> TRUE, nan |-> TRUE, n |-> 0]

Number(n) == [set |-> TRUE, nan |-> FALSE, n |-> n]

\* parseInt(value, 10)
parseInt(value) ==
  LET t == TrimStart(value)
      signed == t # <<>> /\ Head(t) \in {"+", "-"}
      ds == LeadingDigits(IF signed THEN Tail(t) ELSE t)
  IN  IF ds = <<>> THEN NaN
      ELSE Number(IF signed /\ Head(t) = "-" THEN 0 - DecimalValue(ds, 0)
                  ELSE DecimalValue(ds, 0))

\* the record parseInfoOutput starts from: no field set
EmptyInfo ==
  [path |-> Undefined, workingCopyRootPath |-> Undefined, url |-> Undefined,
   relativeUrl |-> Undefined, repositoryRoot |-> Undefined,
   repositoryUuid |-> Undefined, revision |-> NumberNotSet, nodeKind |-> Undefined,
   schedule |-> Undefined, lastChangedAuthor |-> Undefined,
   lastChangedRev |-> NumberNotSet, lastChangedDate |-> Undefined,
   textLastUpdated |-> Undefined, checksum |-> Undefined]

\* the switch of parseInfoOutput
InfoField(info, key, value) ==
  CASE key = <<"Path">> -> [info EXCEPT !.path = value]
    [] key = <<"Working Copy Root Path">> -> [info EXCEPT !.workingCopyRootPath = value]
    [] key = <<"URL">> -> [info EXCEPT !.url = value]
    [] key = <<"Relative URL">> -> [info EXCEPT !.relativeUrl = value]
    [] key = <<"Repository Root">> -> [info EXCEPT !.repositoryRoot = value]
    [] key = <<"Repository UUID">> -> [info EXCEPT !.repositoryUuid = value]
    [] key = <<"Revision">> -> [info EXCEPT !.revision = parseInt(value)]
    [] key = <<"Node Kind">> -> [info EXCEPT !.nodeKind = value]
    [] key = <<"Schedule">> -> [info EXCEPT !.schedule = value]
    [] key = <<"Last Changed Author">> -> [info EXCEPT !.lastChangedAuthor = value]
    [] key = <<"Last Changed Rev">> -> [info EXCEPT !.lastChangedRev = parseInt(value)]
    [] key = <<"Last Changed Date">> -> [info EXCEPT !.lastChangedDate = value]
    [] key = <<"Text Last Updated">> -> [info EXCEPT !.textLastUpdated = value]
    [] key = <<"Checksum">> -> [info EXCEPT !.checksum = value]
    [] OTHER -> info

RECURSIVE InfoOfLines(_, _)
InfoOfLines(lines, info) ==
  IF lines = <<>> THEN info
  ELSE LET parts == SplitOn(Head(lines), <<":", " ">>)
           key == Trim(Head(parts))
           value == Trim(Join(Tail(parts), <<":", " ">>))
       IN  InfoOfLines(Tail(lines), InfoField(info, key, value))

parseInfoOutput(output) == InfoOfLines(Split(output, "\n"), EmptyInfo)

\* a line of 72 dashes
Dashes72 == "------------------------------------------------------------------------"

\* /^-{72}$/gm matches at position i
IsSeparatorAt(s, i) ==
  /\ s[i] = Dashes72
  /\ (i = 1 \/ s[i - 1] \in LineTerminators)
  /\ (i = Len(s) \/ s[i + 1] \in LineTerminators)

RECURSIVE SplitLog(_)
\* output.split(/^-{72}$/gm)
SplitLog(s) ==
  IF \A i \in 1..Len(s) : ~IsSeparatorAt(s, i) THEN <<s>>
  ELSE LET k == CHOOSE i \in 1..Len(s) :
                  IsSeparatorAt(s, i) /\ \A j \in 1..(i - 1) : ~IsSeparatorAt(s, j)
       IN  <<SubSeq(s, 1, k - 1)>> \o SplitLog(SubSeq(s, k + 1, Len(s)))

\* the index of the first bar of a string, 0 when it has none
FirstPipe(s) ==
  IF \A i \in 1..Len(s) : s[i] # "|" THEN 0
  ELSE CHOOSE i \in 1..Len(s) : s[i] = "|" /\ \A j \in 1..(i - 1) : s[j] # "|"

\* the header pattern of parseLogOutput: r, the revision digits, then two
\* non-empty fields without a bar between the first three bars
HeaderMatch(line) ==
  LET ds == IF line # <<>> /\ Head(line) = "r" THEN LeadingDigits(Tail(line)) ELSE <<>>
      rest == TrimStart(SubSeq(line, Len(ds) + 2, Len(line)))
      afterBar1 == IF rest # <<>> /\ Head(rest) = "|" THEN Tail(rest) ELSE <<>>
      bar2 == FirstPipe(afterBar1)
      afterBar2 == SubSeq(afterBar1, bar2 + 1, Len(afterBar1))
      bar3 == FirstPipe(afterBar2)
      details == SubSeq(afterBar2, bar3 + 1, Len(afterBar2))
  IN  [matched  |-> /\ ds # <<>>
                    /\ rest # <<>> /\ Head(rest) = "|"
                    /\ bar2 > 1
                    /\ bar3 > 1
                    /\ \A i \in 1..Len(details) : details[i] \notin LineTerminators,
       revision |-> ds,
       author   |-> SubSeq(afterBar1, 1, bar2 - 1),
       date     |-> SubSeq(afterBar2, 1, bar3 - 1)]

\* the placeholder of an entry without message
NoMessageText == <<"Sin mensaje">>

RECURSIVE LogOfBlocks(_)
LogOfBlocks(blocks) ==
  IF blocks = <<>> THEN <<>>
  ELSE LET lines == Split(Trim(Head(blocks)), "\n")
           h == HeaderMatch(Head(lines))
           message == Trim(Join(SubSeq(lines, 3, Len(lines)), <<"\n">>))
       IN  IF Len(lines) < 2 \/ ~h.matched THEN LogOfBlocks(Tail(blocks))
           ELSE << [revision |-> parseInt(h.revision),
                    author   |-> Trim(h.author),
                    date     |-> Trim(h.date),
                    message  |-> IF message = <<>> THEN NoMessageText ELSE message] >>
                \o LogOfBlocks(Tail(blocks))

parseLogOutput(output) ==
  IF Trim(output) = <<>> THEN <<>>
  ELSE LogOfBlocks(SelectSeq(SplitLog(output), LAMBDA entry : Trim(entry) # <<>>))

----------------------------------------------------------------------------
(* The process runner: executeSvnCommand, src/common/utils.ts:512-603 *)

\* error.code of an error that carries none
NoCode == -2

\* the promise before resolve or reject has been called
PendingPromise ==
  [state |-> "pending", data |-> Undefined, message |-> Undefined,
   code |-> NoCode, stderr |-> Undefined, command |-> Undefined]

\* resolve(response) of the close handler
ResolvedPromise(data, command) ==
  [state |-> "resolved", data |-> data, message |-> Undefined,
   code |-> NoCode, stderr |-> Undefined, command |-> command]

\* reject(error): an SvnError with the fields the handler sets
RejectedPromise(message, code, stderr, command) ==
  [state |-> "rejected", data |-> Undefined, message |-> message,
   code |-> code, stderr |-> stderr, command |-> command]

\* `SVN command failed with code ${code}: ${command}`
ExitFailureMessage(code, command) ==
  <<"SVN command failed with code ", NumText(code), ": ">> \o command

\* `Failed to execute SVN command: ${error.message}`
SpawnFailureMessage(text) == <<"Failed to execute SVN command: ">> \o text

\* `Command timeout after ${config.timeout}ms: ${command}`
TimeoutMessage(timeout, command) ==
  <<"Command timeout after ", NumText(timeout), "ms: ">> \o command

\* the synchronous part of executeSvnCommand: the child and its timer
SpawnChild(cfg, args, noAuthCache) ==
  LET finalArgs == FinalArgs(cfg, args, noAuthCache)
  IN  [args         |-> args,
       finalArgs    |-> finalArgs,
       command      |-> CommandText(cfg, finalArgs),
       argv         |-> ShellArgv(cfg, finalArgs),
       shellCommands |-> ShellCommandCount(cfg, finalArgs),
       stdout       |-> <<>>,
       stderr       |-> <<>>,
       datas        |-> 0,
       timer        |-> "armed",
       closed       |-> FALSE,
       errored      |-> FALSE,
       signals      |-> 0,
       promise      |-> PendingPromise,
       events       |-> <<>>]

\* Settle without the settle-once rule: the last resolve or reject wins
SettleLastWins(promise, outcome) == outcome

\* a promise settles once: later resolve and reject calls have no effect
Settle(promise, outcome) == IF promise.state = "pending" THEN outcome ELSE promise

\* clearTimeout: a timer that has fired or was cleared stays as it is
ClearTimeout(timer) == IF timer = "armed" THEN "cleared" ELSE timer

\* childProcess.stdout.on('data')
OnStdout(p, chunk) ==
  [p EXCEPT !.stdout = @ \o chunk, !.datas = @ + 1]

\* childProcess.stderr.on('data')
OnStderr(p, chunk) ==
  [p EXCEPT !.stderr = @ \o chunk, !.datas = @ + 1]

\* OnClose without clearTimeout: the timer stays armed after the child ended
OnCloseTimerLeft(p, code) ==
  [p EXCEPT !.closed = TRUE,
            !.events = Append(@, IF code = 0 THEN "close0" ELSE "closeN"),
            !.promise = Settle(@,
               IF code = 0
               THEN ResolvedPromise(Trim(p.stdout), p.command)
               ELSE RejectedPromise(ExitFailureMessage(code, p.command),
                                    IF code = NullCode THEN NoCode ELSE code,
                                    Trim(p.stderr), p.command))]

\* childProcess.on('close')
OnClose(p, code) ==
  [p EXCEPT !.timer = ClearTimeout(@),
            !.closed = TRUE,
            !.events = Append(@, IF code = 0 THEN "close0" ELSE "closeN"),
            !.promise = Settle(@,
               IF code = 0
               THEN ResolvedPromise(Trim(p.stdout), p.command)
               ELSE RejectedPromise(ExitFailureMessage(code, p.command),
                                    IF code = NullCode THEN NoCode ELSE code,
                                    Trim(p.stderr), p.command))]

\* OnError without the reject: the handler only clears the timer
OnErrorNoReject(p, text) ==
  [p EXCEPT !.timer = ClearTimeout(@),
            !.errored = TRUE,
            !.events = Append(@, "error")]

\* childProcess.on('error')
OnError(p, text) ==
  [p EXCEPT !.timer = ClearTimeout(@),
            !.errored = TRUE,
            !.events = Append(@, "error"),
            !.promise = Settle(@,
               RejectedPromise(SpawnFailureMessage(text), NoCode, Undefined, p.command))]

\* OnTimeout without the kill: the timer only rejects
OnTimeoutNoKill(p, timeout) ==
  [p EXCEPT !.timer = "fired",
            !.events = Append(@, "timeout"),
            !.promise = Settle(@,
               RejectedPromise(TimeoutMessage(timeout, p.command), NoCode, Undefined, Undefined))]

\* the setTimeout callback
OnTimeout(p, timeout) ==
  [p EXCEPT !.timer = "fired",
            !.signals = @ + 1,
            !.events = Append(@, "timeout"),
            !.promise = Settle(@,
               RejectedPromise(TimeoutMessage(timeout, p.command), NoCode, Undefined, Undefined))]

----------------------------------------------------------------------------
(* SvnService, src/tools/svn-service.ts:30-679.  The part of each method   *)
(* before its await is an operator from the call to either the exception   *)
(* it throws or the argument list it hands to executeSvnCommand.           *)

\* a call of a service method; a field a method does not take is left unset
NoCall ==
  [op |-> "none", path |-> Undefined, url |-> Undefined, paths |-> <<>>,
   targets |-> <<>>, showAll |-> FALSE, limit |-> 0, revision |-> Undefined,
   oldRevision |-> Undefined, newRevision |-> Undefined, message |-> Undefined,
   file |-> Undefined, depth |-> Undefined, acceptConflicts |-> Undefined,
   force |-> FALSE, ignoreExternals |-> FALSE, noIgnore |-> FALSE,
   parents |-> FALSE, autoProps |-> FALSE, noAutoProps |-> FALSE,
   keepLocks |-> FALSE, noUnlock |-> FALSE, keepLocal |-> FALSE]

\* throw new SvnError(message) before any subprocess work
Throw(message) == [throws |-> TRUE, message |-> message, args |-> <<>>]

\* the argument list the method reaches executeSvnCommand with
Run(args) == [throws |-> FALSE, message |-> <<>>, args |-> args]

\* if (flag) args.push(...tokens)
When(flag, tokens) == IF flag THEN tokens ELSE <<>>

\* for (const path of pathArray) if (!validatePath(path)) throw ...
FirstInvalid(paths) ==
  paths[CHOOSE i \in 1..Len(paths) :
          ~validatePath(paths[i]) /\ \A j \in 1..(i - 1) : validatePath(paths[j])]

AllValid(paths) == \A i \in 1..Len(paths) : validatePath(paths[i])

\* pathArray.map(p => normalizePath(p))
NormalizeAll(paths) == [i \in 1..Len(paths) |-> normalizePath(paths[i])]

InvalidPathMessage(path) == <<"Invalid path: ">> \o path

\* the optional trailing path of status, log, update and cleanup
OptionalPath(head, path) ==
  IF Truthy(path)
  THEN IF ~validatePath(path) THEN Throw(InvalidPathMessage(path))
       ELSE Run(head \o <<normalizePath(path)>>)
  ELSE Run(head)

\* getInfo with the local-path rule only, as in an earlier revision
getInfoPlanPathOnly(c) == OptionalPath(<< <<"info">> >>, c.path)

getInfoPlan(c) ==
  IF Truthy(c.path)
  THEN IF validateSvnUrl(c.path) THEN Run(<< <<"info">>, c.path >>)
       ELSE IF validatePath(c.path) THEN Run(<< <<"info">>, normalizePath(c.path) >>)
       ELSE Throw(<<"Invalid path or URL: ">> \o c.path)
  ELSE Run(<< <<"info">> >>)

\* the local-only argument list; the remote-aware one appends --show-updates
getStatusPlan(c) == OptionalPath(<< <<"status">> >>, c.path)

getLogPlan(c) ==
  OptionalPath(<< <<"log">> >>
               \o When(c.limit > 0, << <<"--limit">>, <<NumText(c.limit)>> >>)
               \o When(Truthy(c.revision), << <<"--revision">>, c.revision >>),
               c.path)

\* `${path || '.'}@${revision}`
PegRevision(path, revision) ==
  (IF Truthy(path) THEN path ELSE <<".">>) \o <<"@">> \o revision

getDiffPlan(c) ==
  IF Truthy(c.oldRevision) /\ Truthy(c.newRevision)
  THEN Run(<< <<"diff">>, <<"--old">>, PegRevision(c.path, c.oldRevision),
              <<"--new">>, PegRevision(c.path, c.newRevision) >>)
  ELSE IF Truthy(c.oldRevision)
       THEN Run(<< <<"diff">>, <<"--revision">>, c.oldRevision >>
                \o When(Truthy(c.path), <<normalizePath(c.path)>>))
       ELSE OptionalPath(<< <<"diff">> >>, c.path)

checkoutPlan(c) ==
  IF ~validateSvnUrl(c.url) THEN Throw(<<"Invalid SVN URL: ">> \o c.url)
  ELSE OptionalPath(<< <<"checkout">> >>
                    \o When(Truthy(c.revision), << <<"--revision">>, c.revision >>)
                    \o When(Truthy(c.depth), << <<"--depth">>, c.depth >>)
                    \o When(c.force, << <<"--force">> >>)
                    \o When(c.ignoreExternals, << <<"--ignore-externals">> >>)
                    \o <<c.url>>,
                    c.path)

updatePlan(c) ==
  OptionalPath(<< <<"update">> >>
               \o When(Truthy(c.revision), << <<"--revision">>, c.revision >>)
               \o When(c.force, << <<"--force">> >>)
               \o When(c.ignoreExternals, << <<"--ignore-externals">> >>)
               \o When(Truthy(c.acceptConflicts), << <<"--accept">>, c.acceptConflicts >>),
               c.path)

addPlan(c) ==
  IF ~AllValid(c.paths) THEN Throw(InvalidPathMessage(FirstInvalid(c.paths)))
  ELSE Run(<< <<"add">> >>
           \o When(c.force, << <<"--force">> >>)
           \o When(c.noIgnore, << <<"--no-ignore">> >>)
           \o When(c.autoProps, << <<"--auto-props">> >>)
           \o When(c.noAutoProps, << <<"--no-auto-props">> >>)
           \o When(c.parents, << <<"--parents">> >>)
           \o NormalizeAll(c.paths))

commitPlan(c) ==
  IF ~Truthy(c.message) /\ ~Truthy(c.file) THEN Throw(<<"Commit message is required">>)
  ELSE IF c.paths # <<>> /\ ~AllValid(c.paths)
       THEN Throw(InvalidPathMessage(FirstInvalid(c.paths)))
       ELSE Run(<< <<"commit">> >>
                \o When(Truthy(c.message), << <<"--message">>, c.message >>)
                \o When(Truthy(c.file), << <<"--file">>, normalizePath(c.file) >>)
                \o When(c.force, << <<"--force">> >>)
                \o When(c.keepLocks, << <<"--keep-locks">> >>)
                \o When(c.noUnlock, << <<"--no-unlock">> >>)
                \o (IF c.paths # <<>> THEN NormalizeAll(c.paths)
                    ELSE NormalizeAll(c.targets)))

\* deletePlan that pushes --message whether or not a message was given
deletePlanMessageAlways(c) ==
  IF ~AllValid(c.paths) THEN Throw(InvalidPathMessage(FirstInvalid(c.paths)))
  ELSE Run(<< <<"delete">> >>
           \o When(c.force, << <<"--force">> >>)
           \o When(c.keepLocal, << <<"--keep-local">> >>)
           \o << <<"--message">>, IF c.message = Undefined THEN <<>> ELSE c.message >>
           \o NormalizeAll(c.paths))

deletePlan(c) ==
  IF ~AllValid(c.paths) THEN Throw(InvalidPathMessage(FirstInvalid(c.paths)))
  ELSE Run(<< <<"delete">> >>
           \o When(c.force, << <<"--force">> >>)
           \o When(c.keepLocal, << <<"--keep-local">> >>)
           \o When(Truthy(c.message), << <<"--message">>, c.message >>)
           \o NormalizeAll(c.paths))

revertPlan(c) ==
  IF ~AllValid(c.paths) THEN Throw(InvalidPathMessage(FirstInvalid(c.paths)))
  ELSE Run(<< <<"revert">> >> \o NormalizeAll(c.paths))

cleanupPlan(c) == OptionalPath(<< <<"cleanup">> >>, c.path)

\* the method a call names
Plan(c) ==
  CASE c.op = "getInfo" -> getInfoPlan(c)
    [] c.op = "getStatus" -> getStatusPlan(c)
    [] c.op = "getLog" -> getLogPlan(c)
    [] c.op = "getDiff" -> getDiffPlan(c)
    [] c.op = "checkout" -> checkoutPlan(c)
    [] c.op = "update" -> updatePlan(c)
    [] c.op = "add" -> addPlan(c)
    [] c.op = "commit" -> commitPlan(c)
    [] c.op = "delete" -> deletePlan(c)
    [] c.op = "revert" -> revertPlan(c)
    [] c.op = "cleanup" -> cleanupPlan(c)

----------------------------------------------------------------------------
(* Error translation, src/tools/svn-service.ts *)

\* an SvnError thrown by a method before any subprocess work
ValidationError(message) == RejectedPromise(message, NoCode, Undefined, Undefined)

NotWorkingCopyMessage(cfg) ==
  <<"El directorio '">> \o cfg.workingDirectory
  \o <<"' no es un working copy de SVN. Asegurate de estar en un directorio que contenga un repositorio SVN o hacer checkout primero.">>

ConnectionMessage ==
  <<"No se puede conectar al repositorio SVN. Verifica tu conexion a internet y las credenciales.">>

AuthenticationMessage ==
  <<"Error de autenticacion. Verifica tu nombre de usuario y contrasena SVN.">>

LockedMessage ==
  <<"El working copy esta bloqueado. Ejecuta 'svn cleanup' para resolverlo.">>

DatabaseMessage ==
  <<"Error en la base de datos del working copy. Ejecuta 'svn cleanup' para repararlo.">>

\* error.message.includes(a) || error.message.includes(b)
MessageHas(error, a, b) == Includes(error.message, <<a>>) \/ Includes(error.message, <<b>>)

\* the message of the SvnError that handleSvnError throws
handleSvnError(error, operation, cfg) ==
  IF MessageHas(error, "E155007", "not a working copy") THEN NotWorkingCopyMessage(cfg)
  ELSE IF MessageHas(error, "E175002", "Unable to connect") THEN ConnectionMessage
  ELSE IF MessageHas(error, "E170001", "Authentication failed") THEN AuthenticationMessage
  ELSE IF MessageHas(error, "E155036", "working copy locked") THEN LockedMessage
  ELSE IF MessageHas(error, "E200030", "sqlite") THEN DatabaseMessage
  ELSE IF Truthy(error.stderr) THEN <<"Failed to ", operation, ": ">> \o error.stderr
  ELSE <<"Failed to ", operation, ": ">> \o error.message

\* the catch block of each method: the message of the error the call fails with
CatchMessage(op, error, cfg) ==
  CASE op = "getInfo" -> handleSvnError(error, "get SVN info", cfg)
    [] op = "getStatus" -> handleSvnError(error, "get SVN status", cfg)
    [] op = "getLog" -> handleSvnError(error, "get SVN log", cfg)
    [] op = "getDiff" -> <<"Failed to get SVN diff: ">> \o error.message
    [] op = "checkout" -> <<"Failed to checkout: ">> \o error.message
    [] op = "update" -> <<"Failed to update: ">> \o error.message
    [] op = "add" -> <<"Failed to add files: ">> \o error.message
    [] op = "commit" -> <<"Failed to commit: ">> \o error.message
    [] op = "delete" -> <<"Failed to delete files: ">> \o error.message
    [] op = "revert" -> <<"Failed to revert files: ">> \o error.message
    [] op = "cleanup" -> <<"Failed to cleanup: ">> \o error.message

\* the data of a successful call: what each method makes of response.data
SuccessData(op, data) ==
  CASE op = "getInfo" -> parseInfoOutput(cleanOutput(data))
    [] op = "getStatus" -> parseStatusOutput(cleanOutput(data))
    [] op = "getLog" -> parseLogOutput(cleanOutput(data))
    [] OTHER -> cleanOutput(data)

\* the outcome of a call that has not returned
NoOutcome == [kind |-> "none", message |-> <<>>, data |-> <<>>, command |-> <<>>]

\* the response a method returns
Returned(op, promise) ==
  [kind |-> "ok", message |-> <<>>, data |-> SuccessData(op, promise.data),
   command |-> promise.command]

\* the SvnError a method throws
Thrown(op, error, cfg) ==
  [kind |-> "error", message |-> CatchMessage(op, error, cfg), data |-> <<>>,
   command |-> <<>>]

----------------------------------------------------------------------------
(* SvnService.diagnoseCommands, src/tools/svn-service.ts:621-678 *)

\* the three probes in the order the method runs them
DiagnoseStages == <<"statusLocal", "statusRemote", "logBasic">>

\* the argument list of each probe
DiagnoseArgs(stg) ==
  CASE stg = "statusLocal" -> << <<"status">> >>
    [] stg = "statusRemote" -> << <<"status">>, <<"--show-updates">> >>
    [] stg = "logBasic" -> << <<"log">>, <<"--limit">>, <<"1">> >>

\* the text each catch puts before error.message
DiagnoseLabel(stg) ==
  CASE stg = "statusLocal" -> <<"Status local falló: ">>
    [] stg = "statusRemote" -> <<"Status remoto falló: ">>
    [] stg = "logBasic" -> <<"Log básico falló: ">>

\* const results = { ... } before the first probe
InitialResults(cfg) ==
  [statusLocal |-> FALSE, statusRemote |-> FALSE, logBasic |-> FALSE,
   workingCopyPath |-> cfg.workingDirectory, errors |-> <<>>]

\* the flag of a probe set to true
SetFlag(results, stg) ==
  CASE stg = "statusLocal" -> [results EXCEPT !.statusLocal = TRUE]
    [] stg = "statusRemote" -> [results EXCEPT !.statusRemote = TRUE]
    [] stg = "logBasic" -> [results EXCEPT !.logBasic = TRUE]

\* recordProbe with a catch that swallows the error
recordProbeSilent(results, stg, promise) ==
  IF promise.state = "resolved" THEN SetFlag(results, stg) ELSE results

\* one try / catch of diagnoseCommands once the probe's promise has settled
recordProbe(results, stg, promise) ==
  IF promise.state = "resolved"
  THEN SetFlag(results, stg)
  ELSE [results EXCEPT !.errors = Append(@, DiagnoseLabel(stg) \o promise.message)]

\* the probe after stg
NextStage(stg) ==
  CASE stg = "statusLocal" -> "statusRemote"
    [] stg = "statusRemote" -> "logBasic"

\* the method between its probes: the results so far
DiagnoseRunning(results) == [kind |-> "running", results |-> results]

\* the envelope diagnoseCommands returns
DiagnoseResponse(results, cfg) ==
  [kind |-> "ok", success |-> TRUE, results |-> results,
   command |-> <<"diagnostic">>, workingDirectory |-> cfg.workingDirectory]

----------------------------------------------------------------------------
(* SvnService.healthCheck, src/tools/svn-service.ts:65-120 *)

\* the arguments of validateSvnInstallation's probe and of the version probe
VersionArgs == << <<"--version">>, <<"--quiet">> >>

\* validateSvnInstallation: result.success of a resolved probe, false in the
\* catch
validateSvnInstallation(promise) == promise.state = "resolved"

\* the method between its awaits: the locals it has assigned
HealthRunning(version, workingCopyValid) ==
  [kind |-> "running", version |-> version, workingCopyValid |-> workingCopyValid]

\* the early return when validateSvnInstallation answered false
HealthUnavailable(cfg) ==
  [kind |-> "ok", success |-> FALSE,
   error |-> <<"SVN is not available in the system PATH">>,
   command |-> <<"svn --version">>,
   workingDirectory |-> cfg.workingDirectory]

\* the return of the outer catch
HealthFailed(message, cfg) ==
  [kind |-> "ok", success |-> FALSE, error |-> message,
   command |-> <<"health-check">>,
   workingDirectory |-> cfg.workingDirectory]

\* the return at the end of the try
HealthReport(version, workingCopyValid, repositoryAccessible, cfg) ==
  [kind |-> "ok", success |-> TRUE,
   health |-> [svnAvailable |-> TRUE, version |-> Trim(version),
               workingCopyValid |-> workingCopyValid,
               repositoryAccessible |-> repositoryAccessible],
   command |-> <<"health-check">>,
   workingDirectory |-> cfg.workingDirectory]

\* RunsInfoProbe without the test: getInfo is attempted in any directory
RunsInfoProbeAlways(workingCopyValid) == TRUE

\* if (workingCopyValid): whether getInfo is attempted
RunsInfoProbe(workingCopyValid) == workingCopyValid

----------------------------------------------------------------------------
(* The tool handlers, src/index.ts: each awaits one service method inside  *)
(* try and formats its result; its catch returns the error as text.  The   *)
(* body of a report is not modelled, only its heading.                     *)

\* a handler that lets the error of the service escape
ToolResponseNoCatch(out) ==
  IF out.kind = "ok"
  THEN [fn |-> "tool", value |-> TRUE,
        content |-> << [type |-> "text", text |-> <<"**SVN report**">>] >>]
  ELSE [fn |-> "tool", value |-> FALSE, content |-> <<>>]

\* what the promise of a handler settles with when the service call ended as
\* out: value is TRUE for a returned response, FALSE for a rejection
ToolResponse(out) ==
  IF out.kind = "ok"
  THEN [fn |-> "tool", value |-> TRUE,
        content |-> << [type |-> "text", text |-> <<"**SVN report**">>] >>]
  ELSE [fn |-> "tool", value |-> TRUE,
        content |-> << [type |-> "text", text |-> <<"**Error:** ">> \o out.message] >>]

\* getSvnService().clearCredentials(): SvnService has no such method, the
\* call throws a TypeError inside the handler's try
NotAFunctionError ==
  [kind |-> "error",
   message |-> <<"getSvnService(...).clearCredentials is not a function">>,
   data |-> <<>>, command |-> <<>>]

----------------------------------------------------------------------------
(* Inputs *)

\* a || b for optional strings
OrElse(a, b) == IF Truthy(a) THEN a ELSE b

\* JavaScript truthiness of an optional number
TruthyNumber(x) == x.set /\ ~x.nan /\ x.n # 0

\* createSvnConfig(overrides) in the environment env
createSvnConfig(overrides, env) ==
  [svnPath |-> OrElse(overrides.svnPath, OrElse(env.SVN_PATH, <<"svn">>)),
   workingDirectory |->
     OrElse(overrides.workingDirectory, OrElse(env.SVN_WORKING_DIRECTORY, Cwd)),
   username |-> OrElse(overrides.username, env.SVN_USERNAME),
   password |-> OrElse(overrides.password, env.SVN_PASSWORD),
   timeout |->
     IF TruthyNumber(overrides.timeout) THEN overrides.timeout
     ELSE parseInt(OrElse(env.SVN_TIMEOUT, <<"3", "0", "0", "0", "0">>))]

\* createSvnConfig: the configurations of the service
Configs ==
  { [svnPath |-> <<"svn">>, workingDirectory |-> <<"/", "wc">>,
     username |-> Undefined, password |-> Undefined, timeout |-> 30000],
    [svnPath |-> <<"svn">>, workingDirectory |-> <<"/", "wc">>,
     username |-> <<"bob">>, password |-> <<"s3cret">>, timeout |-> 5000] }

\* the pieces path and URL arguments are assembled from
PathPieces ==
  { <<"a">>, <<"<">>, <<" ">>, <<";">>, <<"E155007">>, <<"http", ":", "/", "/">> }

RECURSIVE PiecesUpTo(_)
PiecesUpTo(n) ==
  IF n = 0 THEN {<<>>}
  ELSE PiecesUpTo(n - 1) \cup {s \o p : s \in PiecesUpTo(n - 1), p \in PathPieces}

\* the strings a caller passes as a path or URL
Inputs == PiecesUpTo(MaxPieces)

\* the strings of one piece, and the empty string
ShortInputs == PiecesUpTo(1)

\* an optional argument
Optional(S) == S \cup {Undefined}

\* the entries of a path array: a valid path, an invalid one, one the shell splits
ArrayPieces == { <<"a">>, <<"<">>, <<";">> }

\* the path arrays of add, delete, revert and commit
PathArrays == UNION {[1..k -> ArrayPieces] : k \in 1..MaxPaths}

Revisions == {<<"1">>}

Messages == {<<"m">>}

ValidUrl == <<"http", ":", "/", "/", "a">>

\* the flags of a call: none set, or all set
FlagSets == {FALSE, TRUE}

WithFlags(c, f) ==
  [c EXCEPT !.force = f, !.ignoreExternals = f, !.noIgnore = f, !.parents = f,
            !.autoProps = f, !.noAutoProps = f, !.keepLocks = f, !.noUnlock = f,
            !.keepLocal = f]

\* the calls of the service
Calls ==
       {[NoCall EXCEPT !.op = "getInfo", !.path = p] : p \in Optional(Inputs)}
  \cup {[NoCall EXCEPT !.op = "getStatus", !.path = p, !.showAll = a] :
          p \in Optional(ShortInputs), a \in BOOLEAN}
  \cup {[NoCall EXCEPT !.op = "getLog", !.path = p, !.limit = n,
                       !.revision = IF n = 0 THEN Undefined ELSE <<"1">>] :
          p \in Optional(ShortInputs), n \in {0, 1}}
  \cup {[NoCall EXCEPT !.op = "getDiff", !.path = p, !.oldRevision = o, !.newRevision = n] :
          p \in Optional(ShortInputs), o \in Optional(Revisions), n \in Optional(Revisions)}
  \cup {WithFlags([NoCall EXCEPT !.op = "checkout", !.url = u,
                                 !.revision = IF f THEN <<"1">> ELSE Undefined], f) :
          u \in ShortInputs \cup {ValidUrl}, f \in FlagSets}
  \cup {[NoCall EXCEPT !.op = "checkout", !.url = ValidUrl, !.path = p,
                       !.depth = <<"files">>] : p \in ShortInputs}
  \cup {WithFlags([NoCall EXCEPT !.op = "update", !.path = p,
                                 !.revision = IF f THEN <<"1">> ELSE Undefined,
                                 !.acceptConflicts = IF f THEN <<"postpone">> ELSE Undefined], f) :
          p \in Optional(ShortInputs), f \in FlagSets}
  \cup {WithFlags([NoCall EXCEPT !.op = "add", !.paths = ps], f) :
          ps \in PathArrays, f \in FlagSets}
  \cup {WithFlags([NoCall EXCEPT !.op = "commit", !.message = m, !.file = fl], f) :
          m \in Optional(Messages), fl \in Optional(PathPieces), f \in FlagSets}
  \cup {[NoCall EXCEPT !.op = "commit", !.message = m, !.paths = ps] :
          m \in Messages, ps \in PathArrays}
  \cup {[NoCall EXCEPT !.op = "commit", !.message = m, !.targets = <<t>>] :
          m \in Messages, t \in PathPieces}
  \cup {WithFlags([NoCall EXCEPT !.op = "delete", !.paths = ps,
                                 !.message = IF f THEN <<"m">> ELSE Undefined], f) :
          ps \in PathArrays, f \in FlagSets}
  \cup {[NoCall EXCEPT !.op = "revert", !.paths = ps] : ps \in PathArrays}
  \cup {[NoCall EXCEPT !.op = "cleanup", !.path = p] : p \in Optional(ShortInputs)}

\* what the child of a subcommand writes to its standard output
StdoutChunks(args) ==
  CASE Head(args) = <<"status">> ->
         { <<"M", " ", " ", " ", " ", " ", " ", " ", "a", "\n">>,
           <<" ", "x", "\r", "\n">> }
    [] Head(args) = <<"info">> ->
         { <<"Revision", ":", " ", "4", "2", "\n">>,
           <<"URL", ":", " ", "http", ":", "/", "/", "a", "\r", "\n">> }
    [] Head(args) = <<"log">> ->
         { <<Dashes72, "\n", "r", "7", " ", "|", " ", "bob", " ", "|", " ",
             "2024-01-01", " ", "|", " ", "1 line", "\n", "\n", "fix", "\n",
             Dashes72, "\n">>,
           <<"\n">> }
    [] OTHER ->
         { <<"A", " ", "a", "\n">>, <<" ", "\n">> }

\* what a child writes to its standard error
StderrChunks ==
  { <<"svn: ", "E155007", ": '/wc' is ", "not a working copy", "\n">>,
    <<"svn: ", "E215004", ": ", "No more credentials", " or ",
      "we tried too many times", ". ", "Authentication failed", "\n">> }

\* the exit codes 'close' reports; 127 is the shell's "command not found" and
\* null is the code of a child ended by a signal
ExitCodes == {0, 1, 127, NullCode}

\* error.message of the 'error' event
SpawnErrorText == <<"spawn svn ENOENT">>

----------------------------------------------------------------------------
(* The state machine *)

VARIABLES
  config,   \* this.config of the service, read-only after construction
  call,     \* the method call in progress
  pc,       \* "idle", then "await" while a subprocess is awaited, then "done"
  stage,    \* getStatus: "remote" while the --show-updates attempt is awaited
  procs,    \* the invocations of executeSvnCommand, in spawn order
  outcome,  \* what the call returned or threw
  input,    \* the argument of a function applied on its own
  result    \* the value the function returned for it; in a call, the response
            \* of the tool handler

vars == <<config, call, pc, stage, procs, outcome, input, result>>

\* the result before the function has been applied
NoResult == [fn |-> "none", value |-> FALSE]

Init ==
  /\ config \in Configs
  /\ call = NoCall
  /\ pc = "idle"
  /\ stage = "local"
  /\ procs = <<>>
  /\ outcome = NoOutcome
  /\ input = <<>>
  /\ result = NoResult

\* a method is called: it runs up to its first await
Call(c) ==
  /\ pc = "idle"
  /\ call' = c
  /\ UNCHANGED <<config, input>>
  /\ LET plan == Plan(c)
     IN  IF plan.throws
         THEN /\ pc' = "done"
              /\ outcome' = Thrown(c.op, ValidationError(plan.message), config)
              /\ result' = ToolResponse(outcome')
              /\ UNCHANGED <<stage, procs>>
         ELSE /\ pc' = "await"
              /\ stage' = IF c.op = "getStatus" /\ c.showAll THEN "remote" ELSE "local"
              /\ procs' = << SpawnChild(config,
                               IF c.op = "getStatus" /\ c.showAll
                               THEN plan.args \o << <<"--show-updates">> >>
                               ELSE plan.args,
                               FALSE) >>
              /\ UNCHANGED <<outcome, result>>

\* FallsBack for exit failures only: timeouts and spawn failures propagate
FallsBackOnExitOnly(stg, promise) ==
  stg = "remote" /\ promise.state = "rejected" /\ promise.code # NoCode

\* getStatus: the catch around the --show-updates attempt
FallsBack(stg, promise) == stg = "remote" /\ promise.state = "rejected"

\* Deliver with stdout declared outside the promise executor: one buffer for
\* every invocation
DeliverShared(ps, i, np) ==
  [j \in 1..Len(ps) |-> IF j = i THEN np ELSE [ps[j] EXCEPT !.stdout = np.stdout]]

\* a handler of invocation i has run: childProcess, stdout, stderr and timeout
\* are locals of that invocation's promise executor
Deliver(ps, i, np) == [ps EXCEPT ![i] = np]

\* diagnoseCommands is called: it runs up to the await of its first probe
DiagnoseCommands ==
  /\ pc = "idle"
  /\ call' = [NoCall EXCEPT !.op = "diagnoseCommands"]
  /\ pc' = "await"
  /\ stage' = "statusLocal"
  /\ procs' = << SpawnChild(config, DiagnoseArgs("statusLocal"), FALSE) >>
  /\ outcome' = DiagnoseRunning(InitialResults(config))
  /\ UNCHANGED <<config, input, result>>

\* diagnoseCommands resumes after the probe it awaited settled as np.promise
ResumeDiagnose(i, np) ==
  LET results == recordProbe(outcome.results, stage, np.promise)
  IN  IF stage # "logBasic"
      THEN /\ procs' = Append(Deliver(procs, i, np),
                              SpawnChild(config, DiagnoseArgs(NextStage(stage)), FALSE))
           /\ stage' = NextStage(stage)
           /\ outcome' = DiagnoseRunning(results)
           /\ UNCHANGED <<pc, result>>
      ELSE /\ procs' = Deliver(procs, i, np)
           /\ pc' = "done"
           /\ outcome' = DiagnoseResponse(results, config)
           /\ result' = ToolResponse(outcome')
           /\ UNCHANGED stage

\* healthCheck is called: it runs up to the await inside
\* validateSvnInstallation
HealthCheck ==
  /\ pc = "idle"
  /\ call' = [NoCall EXCEPT !.op = "healthCheck"]
  /\ pc' = "await"
  /\ stage' = "installation"
  /\ procs' = << SpawnChild(config, VersionArgs, FALSE) >>
  /\ outcome' = HealthRunning(Undefined, FALSE)
  /\ UNCHANGED <<config, input, result>>

\* healthCheck returns the envelope response
HealthReturns(i, np, response) ==
  /\ procs' = Deliver(procs, i, np)
  /\ pc' = "done"
  /\ outcome' = response
  /\ result' = ToolResponse(outcome')
  /\ UNCHANGED stage

\* healthCheck awaits one more subprocess
HealthAwaits(i, np, stg, args, running) ==
  /\ procs' = Append(Deliver(procs, i, np), SpawnChild(config, args, FALSE))
  /\ stage' = stg
  /\ outcome' = running
  /\ UNCHANGED <<pc, result>>

\* healthCheck resumes after the subprocess it awaited settled as np.promise;
\* fs.access of the .svn directory answers either way
ResumeHealthCheck(i, np) ==
  CASE stage = "installation" ->
         IF validateSvnInstallation(np.promise)
         THEN HealthAwaits(i, np, "version", VersionArgs, outcome)
         ELSE HealthReturns(i, np, HealthUnavailable(config))
    [] stage = "version" ->
         IF np.promise.state = "rejected"
         THEN HealthReturns(i, np, HealthFailed(np.promise.message, config))
         ELSE \E workingCopyValid \in BOOLEAN :
                IF RunsInfoProbe(workingCopyValid)
                THEN HealthAwaits(i, np, "info",
                                  Plan([NoCall EXCEPT !.op = "getInfo"]).args,
                                  HealthRunning(np.promise.data, workingCopyValid))
                ELSE HealthReturns(i, np,
                       HealthReport(np.promise.data, workingCopyValid, FALSE, config))
    [] stage = "info" ->
         HealthReturns(i, np,
           HealthReport(outcome.version, outcome.workingCopyValid,
                        np.promise.state = "resolved", config))

(* The handler of an event of invocation i has left it as np.  When that    *)
(* settled the promise the method awaits, the method resumes before any     *)
(* other event is handled.                                                  *)
Resume(i, np) ==
  IF ~(pc = "await" /\ i = Len(procs)
       /\ procs[i].promise.state = "pending" /\ np.promise.state # "pending")
  THEN /\ procs' = Deliver(procs, i, np)
       /\ UNCHANGED <<pc, stage, outcome, result>>
  ELSE IF call.op = "diagnoseCommands" THEN ResumeDiagnose(i, np)
  ELSE IF call.op = "healthCheck" THEN ResumeHealthCheck(i, np)
  ELSE IF FallsBack(stage, np.promise)
       THEN /\ procs' = Append(Deliver(procs, i, np),
                               SpawnChild(config, Plan(call).args, FALSE))
            /\ stage' = "local"
            /\ UNCHANGED <<pc, outcome, result>>
       ELSE /\ procs' = Deliver(procs, i, np)
            /\ pc' = "done"
            /\ outcome' = IF np.promise.state = "resolved"
                          THEN Returned(call.op, np.promise)
                          ELSE Thrown(call.op, np.promise, config)
            /\ result' = ToolResponse(outcome')
            /\ UNCHANGED stage

StdoutData(i, chunk) ==
  /\ ~procs[i].closed /\ ~procs[i].errored
  /\ procs[i].datas < MaxData
  /\ Resume(i, OnStdout(procs[i], chunk))
  /\ UNCHANGED <<config, call, input>>

StderrData(i, chunk) ==
  /\ ~procs[i].closed /\ ~procs[i].errored
  /\ procs[i].datas < MaxData
  /\ Resume(i, OnStderr(procs[i], chunk))
  /\ UNCHANGED <<config, call, input>>

Close(i, code) ==
  /\ ~procs[i].closed
  /\ code = NullCode => procs[i].signals > 0
  /\ Resume(i, OnClose(procs[i], code))
  /\ UNCHANGED <<config, call, input>>

Error(i) ==
  /\ ~procs[i].closed /\ ~procs[i].errored
  /\ Resume(i, OnError(procs[i], SpawnErrorText))
  /\ UNCHANGED <<config, call, input>>

Timeout(i) ==
  /\ procs[i].timer = "armed"
  /\ Resume(i, OnTimeout(procs[i], config.timeout))
  /\ UNCHANGED <<config, call, input>>

\* the svn_clear_credentials tool
ClearCredentialsTool ==
  /\ pc = "idle"
  /\ call' = [NoCall EXCEPT !.op = "clearCredentials"]
  /\ pc' = "done"
  /\ outcome' = NotAFunctionError
  /\ result' = ToolResponse(outcome')
  /\ UNCHANGED <<config, stage, procs, input>>

Next ==
  \/ \E c \in Calls : Call(c)
  \/ ClearCredentialsTool
  \/ \E i \in 1..Len(procs) : \E chunk \in StdoutChunks(procs[i].args) : StdoutData(i, chunk)
  \/ \E i \in 1..Len(procs) : \E chunk \in StderrChunks : StderrData(i, chunk)
  \/ \E i \in 1..Len(procs) : \E code \in ExitCodes : Close(i, code)
  \/ \E i \in 1..Len(procs) : Error(i)
  \/ \E i \in 1..Len(procs) : Timeout(i)

Spec == Init /\ [][Next]_vars

----------------------------------------------------------------------------
(* validatePath applied on its own *)

\* the characters of the validator inputs
ValidatorAlphabet == {"a", "C", "dir", ":", "/", "\\", "<", ">", "\"", "|", "?", "*"}

InitValidatePath ==
  /\ config \in {c \in Configs : c.password = Undefined}
  /\ call = NoCall
  /\ pc = "idle"
  /\ stage = "local"
  /\ procs = <<>>
  /\ outcome = NoOutcome
  /\ input \in StringsUpTo(ValidatorAlphabet, MaxStrLen)
  /\ result = NoResult

ApplyValidatePath ==
  /\ result = NoResult
  /\ result' = [fn |-> "validatePath", value |-> validatePath(input)]
  /\ UNCHANGED <<config, call, pc, stage, procs, outcome, input>>

NextValidatePath == ApplyValidatePath

SpecValidatePath == InitValidatePath /\ [][NextValidatePath]_vars

----------------------------------------------------------------------------
(* validateSvnUrl and validatePath applied to the same string, as getInfo   *)
(* does                                                                     *)

UrlAlphabet == {"http", "SVN", "a", "C", ":", "/", "\\", "\n"}

InitValidators ==
  /\ config \in {c \in Configs : c.password = Undefined}
  /\ call = NoCall
  /\ pc = "idle"
  /\ stage = "local"
  /\ procs = <<>>
  /\ outcome = NoOutcome
  /\ input \in StringsUpTo(UrlAlphabet, MaxUrlLen)
  /\ result = NoResult

ApplyValidators ==
  /\ result = NoResult
  /\ result' = [fn |-> "validators", value |-> validatePath(input),
                url |-> validateSvnUrl(input)]
  /\ UNCHANGED <<config, call, pc, stage, procs, outcome, input>>

NextValidators == ApplyValidators

SpecValidators == InitValidators /\ [][NextValidators]_vars

----------------------------------------------------------------------------
(* The argument lists of the operations, every option on its own: each     *)
(* method up to its call of executeSvnCommand, and the first invocation of *)
(* clearSvnCredentials, the one caller that asks for --no-auth-cache.      *)

\* the values of an optional string option: absent, empty, given
OptionValues(v) == {Undefined, <<>>, v}

OptionCalls ==
       {[NoCall EXCEPT !.op = "getInfo", !.path = p] :
          p \in {Undefined, <<"a">>, ValidUrl}}
  \cup {[NoCall EXCEPT !.op = "getStatus", !.path = p, !.showAll = a] :
          p \in {Undefined, <<"a">>}, a \in BOOLEAN}
  \cup {[NoCall EXCEPT !.op = "getLog", !.path = p, !.limit = n, !.revision = r] :
          p \in {Undefined, <<"a">>}, n \in {0, 1}, r \in Optional(Revisions)}
  \cup {[NoCall EXCEPT !.op = "getDiff", !.path = p, !.oldRevision = o, !.newRevision = n] :
          p \in {Undefined, <<"a">>}, o \in Optional(Revisions), n \in Optional(Revisions)}
  \cup {[NoCall EXCEPT !.op = "checkout", !.url = ValidUrl, !.path = p, !.revision = r,
                       !.depth = d, !.force = f, !.ignoreExternals = e] :
          p \in {Undefined, <<"a">>}, r \in Optional(Revisions),
          d \in OptionValues(<<"files">>), f \in BOOLEAN, e \in BOOLEAN}
  \cup {[NoCall EXCEPT !.op = "update", !.path = p, !.revision = r, !.force = f,
                       !.ignoreExternals = e, !.acceptConflicts = a] :
          p \in {Undefined, <<"a">>}, r \in Optional(Revisions), f \in BOOLEAN,
          e \in BOOLEAN, a \in OptionValues(<<"postpone">>)}
  \cup {[NoCall EXCEPT !.op = "add", !.paths = << <<"a">> >>, !.force = f, !.noIgnore = n,
                       !.autoProps = a, !.noAutoProps = na, !.parents = p] :
          f \in BOOLEAN, n \in BOOLEAN, a \in BOOLEAN, na \in BOOLEAN, p \in BOOLEAN}
  \cup {[NoCall EXCEPT !.op = "commit", !.message = m, !.file = fl, !.force = f,
                       !.keepLocks = k, !.noUnlock = n, !.paths = ps, !.targets = ts] :
          m \in OptionValues(<<"m">>), fl \in OptionValues(<<"a">>), f \in BOOLEAN,
          k \in BOOLEAN, n \in BOOLEAN,
          ps \in {<<>>, << <<"a">> >>}, ts \in {<<>>, << <<"a">> >>}}
  \cup {[NoCall EXCEPT !.op = "delete", !.paths = << <<"a">> >>, !.message = m,
                       !.force = f, !.keepLocal = k] :
          m \in OptionValues(<<"m">>), f \in BOOLEAN, k \in BOOLEAN}
  \cup {[NoCall EXCEPT !.op = "revert", !.paths = << <<"a">> >>]}
  \cup {[NoCall EXCEPT !.op = "cleanup", !.path = p] : p \in {Undefined, <<"a">>}}

\* clearSvnCredentials up to its first await
ClearSvnCredentials ==
  /\ pc = "idle"
  /\ call' = [NoCall EXCEPT !.op = "clearSvnCredentials"]
  /\ pc' = "await"
  /\ procs' = << SpawnChild(config, << <<"auth">>, <<"--remove">> >>, TRUE) >>
  /\ UNCHANGED <<config, stage, outcome, input, result>>

NextBuildArgs ==
  \/ \E c \in OptionCalls : Call(c)
  \/ ClearSvnCredentials

SpecBuildArgs == Init /\ [][NextBuildArgs]_vars

----------------------------------------------------------------------------
(* createSvnConfig applied to overrides in an environment *)

\* the overrides a caller passes
Overrides ==
  [svnPath : {Undefined, <<>>, <<"custom-svn">>},
   workingDirectory : {Undefined, <<"/", "custom">>},
   username : {Undefined, <<"bob">>},
   password : {Undefined, <<"s3cret">>},
   timeout : {NumberNotSet, Number(0), Number(5000)}]

\* process.env
Environments ==
  [SVN_PATH : {Undefined, <<"/", "opt", "/", "svn">>},
   SVN_WORKING_DIRECTORY : {Undefined, <<"/", "env">>},
   SVN_USERNAME : {Undefined, <<"eve">>},
   SVN_PASSWORD : {Undefined, <<"pw">>},
   SVN_TIMEOUT : {Undefined, <<>>, <<"1", "0">>, <<"0">>, <<"-", "5">>, <<"x">>}]

\* the service before its constructor has run
NoConfig ==
  [svnPath |-> Undefined, workingDirectory |-> Undefined, username |-> Undefined,
   password |-> Undefined, timeout |-> NumberNotSet]

InitCreateSvnConfig ==
  /\ config = NoConfig
  /\ call = NoCall
  /\ pc = "idle"
  /\ stage = "local"
  /\ procs = <<>>
  /\ outcome = NoOutcome
  /\ input \in [overrides : Overrides, env : Environments]
  /\ result = NoResult

ApplyCreateSvnConfig ==
  /\ result = NoResult
  /\ config' = createSvnConfig(input.overrides, input.env)
  /\ result' = [fn |-> "createSvnConfig", value |-> TRUE]
  /\ UNCHANGED <<call, pc, stage, procs, outcome, input>>

NextCreateSvnConfig == ApplyCreateSvnConfig

SpecCreateSvnConfig == InitCreateSvnConfig /\ [][NextCreateSvnConfig]_vars

----------------------------------------------------------------------------
(* diagnoseCommands called on the service *)

\* what a probe's child writes: the method reads neither stream
ProbeStdout == { <<"M", " ", " ", " ", " ", " ", " ", " ", "a", "\n">> }

ProbeStderr == { <<"svn: ", "E155007", ": '/wc' is ", "not a working copy", "\n">> }

NextDiagnose ==
  \/ DiagnoseCommands
  \/ \E i \in 1..Len(procs) : \E chunk \in ProbeStdout : StdoutData(i, chunk)
  \/ \E i \in 1..Len(procs) : \E chunk \in ProbeStderr : StderrData(i, chunk)
  \/ \E i \in 1..Len(procs) : \E code \in ExitCodes : Close(i, code)
  \/ \E i \in 1..Len(procs) : Error(i)
  \/ \E i \in 1..Len(procs) : Timeout(i)

SpecDiagnose == Init /\ [][NextDiagnose]_vars

----------------------------------------------------------------------------
(* healthCheck called on the service *)

NextHealthCheck ==
  \/ HealthCheck
  \/ \E i \in 1..Len(procs) : \E chunk \in ProbeStdout : StdoutData(i, chunk)
  \/ \E i \in 1..Len(procs) : \E chunk \in ProbeStderr : StderrData(i, chunk)
  \/ \E i \in 1..Len(procs) : \E code \in ExitCodes : Close(i, code)
  \/ \E i \in 1..Len(procs) : Error(i)
  \/ \E i \in 1..Len(procs) : Timeout(i)

SpecHealthCheck == Init /\ [][NextHealthCheck]_vars

----------------------------------------------------------------------------
(* parseStatusOutput applied on its own *)

\* first characters of a status line: the eleven codes and two others
StatusChars == {" ", "A", "D", "M", "R", "C", "X", "I", "?", "!", "~", "Z", "m"}

\* the columns between the status character and the path
StatusColumns == <<" ", " ", " ", " ", " ", " ", " ">>

\* what follows column 8
StatusPaths == { <<>>, <<"a">>, <<" ", "a", "/", "b", "\r">> }

\* lines of full width, lines that are too short, and blank lines
StatusLines ==
  { <<ch>> \o StatusColumns \o path : ch \in StatusChars, path \in StatusPaths }
  \cup { <<"M", " ", "a">>, <<"?", " ", " ", " ", " ", " ", "a">>, <<>>, <<" ", "\t">>,
         <<"A", "+", "*", "L", "S", "K", "O", "T", "a">> }

\* the texts of at most n lines
TextsOf(lines, n) ==
  {Join(ls, <<"\n">>) : ls \in UNION {[1..k -> lines] : k \in 0..n}}

InitParseStatus ==
  /\ config \in Configs
  /\ call = NoCall
  /\ pc = "idle"
  /\ stage = "local"
  /\ procs = <<>>
  /\ outcome = NoOutcome
  /\ input \in TextsOf(StatusLines, MaxLines)
  /\ result = NoResult

ApplyParseStatus ==
  /\ result = NoResult
  /\ result' = [fn |-> "parseStatusOutput", value |-> TRUE,
                records |-> parseStatusOutput(input)]
  /\ UNCHANGED <<config, call, pc, stage, procs, outcome, input>>

NextParseStatus == ApplyParseStatus

SpecParseStatus == InitParseStatus /\ [][NextParseStatus]_vars

----------------------------------------------------------------------------
(* parseLogOutput applied on its own *)

\* header lines: two that match the pattern and two that do not
LogHeaders ==
  { <<"r", "7", " ", "|", " ", "bob", " ", "|", " ", "2024", " ", "|", " ", "1 line">>,
    <<"r", "1", "2", " ", "|", "amy", "|", "2025", "|">>,
    <<"r", "x", " ", "|", " ", "bob", " ", "|", " ", "2024", " ", "|", " ", "1 line">>,
    <<"r", "7", " ", "|", " ", "bob">> }

\* what follows the header line inside a block
LogBodies ==
  { <<>>,
    <<"\n">>,
    <<"\n", "\n">>,
    <<"\n", "\n", "fix", "\n">>,
    <<"\n", "fix", "\n">>,
    <<"\n", "\n", "fix", "\n", "\n", "more", "\n">> }

\* the text between two separator lines
LogBlocks ==
  { <<"\n">> \o header \o body : header \in LogHeaders, body \in LogBodies }
  \cup { <<"\n">>, <<"\n", " ", "\n">> }

RECURSIVE Separated(_)
\* a separator line before each block and after the last
Separated(blocks) ==
  IF blocks = <<>> THEN <<Dashes72>>
  ELSE <<Dashes72>> \o Head(blocks) \o Separated(Tail(blocks))

\* the log texts of at most n blocks, and the empty text
LogTexts(n) ==
  { <<>> } \cup
  { Separated(bs) : bs \in UNION {[1..k -> LogBlocks] : k \in 0..n} }

InitParseLog ==
  /\ config \in Configs
  /\ call = NoCall
  /\ pc = "idle"
  /\ stage = "local"
  /\ procs = <<>>
  /\ outcome = NoOutcome
  /\ input \in LogTexts(MaxBlocks)
  /\ result = NoResult

ApplyParseLog ==
  /\ result = NoResult
  /\ result' = [fn |-> "parseLogOutput", value |-> TRUE,
                entries |-> parseLogOutput(input)]
  /\ UNCHANGED <<config, call, pc, stage, procs, outcome, input>>

NextParseLog == ApplyParseLog

SpecParseLog == InitParseLog /\ [][NextParseLog]_vars

----------------------------------------------------------------------------
(* parseInfoOutput applied on its own *)

\* lines of `svn info`: numeric fields with and without digits, other fields,
\* and lines without a key
InfoLines ==
  { <<"Revision", ":", " ", "4", "2">>,
    <<"Revision", ":", " ", "x">>,
    <<"Revision", ":", " ", "4", "x">>,
    <<"Revision", ":", " ">>,
    <<"Revision", ":", "7">>,
    <<"Last Changed Rev", ":", " ", "7">>,
    <<"Last Changed Rev", ":", " ", "-">>,
    <<"URL", ":", " ", "http", ":", "/", "/", "a">>,
    <<"Path", ":", " ", "a">>,
    <<>> }

InitParseInfo ==
  /\ config \in Configs
  /\ call = NoCall
  /\ pc = "idle"
  /\ stage = "local"
  /\ procs = <<>>
  /\ outcome = NoOutcome
  /\ input \in TextsOf(InfoLines, MaxLines)
  /\ result = NoResult

ApplyParseInfo ==
  /\ result = NoResult
  /\ result' = [fn |-> "parseInfoOutput", value |-> TRUE,
                info |-> parseInfoOutput(input)]
  /\ UNCHANGED <<config, call, pc, stage, procs, outcome, input>>

NextParseInfo == ApplyParseInfo

SpecParseInfo == InitParseInfo /\ [][NextParseInfo]_vars

----------------------------------------------------------------------------
(* Every method with a timer that fires unless it is cleared *)

\* one call of each method that reaches executeSvnCommand
PlainCalls ==
  {c \in Calls : /\ c.path = Undefined /\ c.file = Undefined /\ ~c.force
                 /\ c.targets = <<>>
                 /\ c.url \in {Undefined, ValidUrl}
                 /\ c.paths \in {<<>>, << <<"a">> >>}}

\* the invocations one method can make: diagnoseCommands makes three
Invocations == 1..3

\* the timer of invocation i is pending
TimerArmed(i) == i \in 1..Len(procs) /\ procs[i].timer = "armed"

\* the timer of invocation i fires
TimerFires(i) == i \in 1..Len(procs) /\ Timeout(i)

\* WF_vars(TimerFires(i)) with its ENABLED written out: the callback can run
\* exactly while the timer is armed, and running it changes the timer
TimerFairness(i) == []<>(~TimerArmed(i)) \/ []<><<TimerFires(i)>>_vars

\* the data events are left out: their handlers only append to stdout and
\* stderr, they touch no timer and settle no promise
NextSettles ==
  \/ \E c \in PlainCalls : Call(c)
  \/ DiagnoseCommands
  \/ HealthCheck
  \/ \E i \in 1..Len(procs) : \E code \in ExitCodes : Close(i, code)
  \/ \E i \in 1..Len(procs) : Error(i)
  \/ \E i \in 1..Len(procs) : Timeout(i)

\* setTimeout: an armed timer fires unless clearTimeout comes first; nothing
\* is assumed about the child
SpecSettles ==
  /\ Init /\ [][NextSettles]_vars
  /\ \A i \in Invocations : TimerFairness(i)

----------------------------------------------------------------------------
(* executeSvnCommand called several times without awaiting *)

\* the subcommand of the k-th invocation
ConcurrentArgs(k) ==
  CASE k % 3 = 1 -> << <<"status">> >>
    [] k % 3 = 2 -> << <<"info">> >>
    [] k % 3 = 0 -> << <<"log">> >>

\* what the child of each subcommand writes to its standard output
OwnStdout(args) ==
  CASE Head(args) = <<"status">> -> { <<"M", " ", " ", " ", " ", " ", " ", " ", "a", "\n">> }
    [] Head(args) = <<"info">> -> { <<"Revision", ":", " ", "4", "2", "\n">> }
    [] Head(args) = <<"log">> -> { <<"\n", "fix", "\n">> }

\* the exit codes of this specification
OwnExitCodes == {0, 1, NullCode}

\* executeSvnCommand is called while earlier invocations are in flight
ExecuteSvnCommand ==
  /\ pc = "idle"
  /\ Len(procs) < MaxInFlight
  /\ procs' = Append(procs, SpawnChild(config, ConcurrentArgs(Len(procs) + 1), FALSE))
  /\ UNCHANGED <<config, call, pc, stage, outcome, input, result>>

NextConcurrent ==
  \/ ExecuteSvnCommand
  \/ \E i \in 1..Len(procs) : \E chunk \in OwnStdout(procs[i].args) : StdoutData(i, chunk)
  \/ \E i \in 1..Len(procs) : \E chunk \in ProbeStderr : StderrData(i, chunk)
  \/ \E i \in 1..Len(procs) : \E code \in OwnExitCodes : Close(i, code)
  \/ \E i \in 1..Len(procs) : Error(i)
  \/ \E i \in 1..Len(procs) : Timeout(i)

SpecConcurrent == Init /\ [][NextConcurrent]_vars

----------------------------------------------------------------------------
(* Properties of getStatus and of the process runner *)

ShowUpdates == <<"--show-updates">>

\* the outcome of a finished getStatus call is the outcome of invocation p
StatusOutcomeIs(p) ==
  /\ p.promise.state # "pending"
  /\ p.promise.state = "resolved" =>
       /\ outcome.kind = "ok"
       /\ outcome.data = parseStatusOutput(cleanOutput(p.promise.data))
       /\ outcome.command = p.command
  /\ p.promise.state = "rejected" =>
       /\ outcome.kind = "error"
       /\ outcome.message = handleSvnError(p.promise, "get SVN status", config)

\* C1: getStatus with showAll runs status --show-updates first; when that
\* attempt fails for any reason exactly one local-only invocation with the
\* same arguments follows and its outcome is the outcome of the call; when
\* the attempt succeeds, or without showAll, there is exactly one invocation.
C1_StatusFallback ==
  (call.op = "getStatus" /\ procs # <<>>) =>
    /\ Len(procs) <= 2
    /\ call.showAll =>
         /\ procs[1].args[Len(procs[1].args)] = ShowUpdates
         /\ (Len(procs) = 2) <=> (procs[1].promise.state = "rejected")
         /\ Len(procs) = 2 =>
              /\ procs[2].args \o <<ShowUpdates>> = procs[1].args
              /\ (pc = "done") <=> (procs[2].promise.state # "pending")
              /\ pc = "done" => StatusOutcomeIs(procs[2])
         /\ (Len(procs) = 1 /\ pc = "done") => StatusOutcomeIs(procs[1])
    /\ ~call.showAll =>
         /\ Len(procs) = 1
         /\ \A k \in 1..Len(procs[1].args) : procs[1].args[k] # ShowUpdates
         /\ pc = "done" => StatusOutcomeIs(procs[1])

\* C1 witness: the remote-aware attempt exited non-zero and the call returned
\* the parsed result of the local-only invocation
C1_Witness ==
  /\ call.op = "getStatus" /\ call.showAll /\ pc = "done"
  /\ Len(procs) = 2
  /\ procs[1].events = <<"closeN">>
  /\ outcome.kind = "ok" /\ outcome.data # <<>>

\* the promise of an invocation agrees with the first event its handlers saw
SettledByFirstEvent(p) ==
  /\ (p.promise.state = "pending") <=> (p.events = <<>>)
  /\ (p.promise.state = "resolved") <=> (p.events # <<>> /\ p.events[1] = "close0")
  /\ p.promise.state = "resolved" =>
       /\ p.promise.data = Trim(p.stdout)
       /\ p.promise.message = Undefined
  /\ p.promise.state = "rejected" =>
       /\ p.promise.message # Undefined
       /\ p.promise.data = Undefined

\* C2: the promise of executeSvnCommand settles with the first of close,
\* error and timeout, as a success carrying the trimmed standard output iff
\* that event is close with code 0 and as a failure carrying an error
\* otherwise, and no later event changes it.
C2_SettlesOnce ==
  /\ [](\A i \in 1..Len(procs) : SettledByFirstEvent(procs[i]))
  /\ [][\A i \in 1..Len(procs) :
          procs[i].promise.state # "pending" => procs'[i].promise = procs[i].promise]_vars

\* C2 witness: a success whose data is the trimmed output, and in the same
\* call an earlier invocation that saw an event after it was settled
C2_Witness ==
  \E i, j \in 1..Len(procs) :
    /\ procs[i].promise.state = "resolved"
    /\ procs[i].promise.data # <<>>
    /\ procs[i].promise.data # procs[i].stdout
    /\ Len(procs[j].events) >= 2

\* C3: a timer that fires sends SIGTERM and fails the call with the timeout
\* error naming the configured timeout, also when the child exits with code 0
\* afterwards; the timer is armed as long as neither close nor error occurred.
C3_Timeout ==
  \A i \in 1..Len(procs) :
    /\ procs[i].events = <<>> => procs[i].timer = "armed"
    /\ (procs[i].events # <<>> /\ procs[i].events[1] = "timeout") =>
         /\ procs[i].signals = 1
         /\ procs[i].promise.state = "rejected"
         /\ procs[i].promise.message =
              <<"Command timeout after ", NumText(config.timeout), "ms: ">>
              \o procs[i].command

\* C3 witness: the child exited with code 0 after the timeout had fired
C3_Witness ==
  \E i \in 1..Len(procs) :
    /\ procs[i].events = <<"timeout", "close0">>
    /\ procs[i].signals = 1
    /\ procs[i].promise.state = "rejected"

----------------------------------------------------------------------------
(* Properties of the error messages and of the spawned command line *)

\* C4: the message of the error a call fails with never contains the
\* configured password.
C4_NoPasswordInError ==
  (pc = "done" /\ outcome.kind = "error" /\ Truthy(config.password)) =>
    ~Includes(outcome.message, config.password)

\* C5: the executable of every invocation receives exactly the token list of
\* the argument builder, one entry per token, and the shell runs one command.
C5_ArgvIsTokenList ==
  \A i \in 1..Len(procs) :
    /\ procs[i].argv = procs[i].finalArgs
    /\ procs[i].shellCommands = 1

----------------------------------------------------------------------------
(* Properties of validation *)

\* the call was given a path (for checkout, also a URL) that fails validation
HasInvalidPathArgument(c) ==
  CASE c.op = "getInfo" ->
         Truthy(c.path) /\ ~validateSvnUrl(c.path) /\ ~validatePath(c.path)
    [] c.op = "checkout" ->
         ~validateSvnUrl(c.url) \/ (Truthy(c.path) /\ ~validatePath(c.path))
    [] OTHER ->
         \/ Truthy(c.path) /\ ~validatePath(c.path)
         \/ \E k \in 1..Len(c.paths) : ~validatePath(c.paths[k])

\* C6: a call with a path argument that fails validation fails without
\* spawning a subprocess.
C6_InvalidPathNeverSpawns ==
  (call.op # "none" /\ HasInvalidPathArgument(call)) =>
    /\ procs = <<>>
    /\ pc = "done"
    /\ outcome.kind = "error"

\* the stderr of a failed invocation says the target is not a working copy
SaysNotWorkingCopy(promise) ==
  /\ promise.state = "rejected"
  /\ promise.stderr # Undefined
  /\ Includes(promise.stderr, <<"E155007">>) \/ Includes(promise.stderr, <<"not a working copy">>)

\* C7: a status, info or log call whose subprocess failed with a stderr that
\* says "not a working copy" fails with the NotAWorkingCopy message, which
\* names the working directory.
C7_NotWorkingCopyClassified ==
  (pc = "done" /\ call.op \in {"getStatus", "getInfo", "getLog"} /\ procs # <<>>
   /\ SaysNotWorkingCopy(procs[Len(procs)].promise)) =>
    /\ outcome.kind = "error"
    /\ outcome.message = NotWorkingCopyMessage(config)

\* C8: getInfo with a string that is neither a valid URL nor a valid path
\* fails without spawning, with a message that contains
\* 'Invalid path or URL: ' followed by the string.
C8_InvalidInfoInputNamed ==
  (call.op = "getInfo" /\ Truthy(call.path)
   /\ ~validateSvnUrl(call.path) /\ ~validatePath(call.path)) =>
    /\ procs = <<>>
    /\ pc = "done"
    /\ outcome.kind = "error"
    /\ Includes(outcome.message, <<"Invalid path or URL: ">> \o call.path)

\* the call did not fail with an invalid-path error
NoInvalidPathError ==
  /\ ~Includes(outcome.message, <<"Invalid path or URL: ">>)
  /\ ~Includes(outcome.message, <<"Invalid path: ">>)

\* getInfo appended the URL as it was given
InfoUrlVerbatim ==
  validateSvnUrl(call.path) =>
    /\ procs # <<>>
    /\ procs[1].args = << <<"info">>, call.path >>
    /\ NoInvalidPathError

\* getInfo appended the local path in normalized form
InfoPathNormalized ==
  /\ procs # <<>>
  /\ procs[1].args = << <<"info">>, normalizePath(call.path) >>

\* C9 as stated: getInfo appends every string validateSvnUrl accepts verbatim
\* and every other string validatePath accepts in normalized form.
C9_InfoRoutingAnyString ==
  (call.op = "getInfo" /\ call.path # Undefined) =>
    /\ InfoUrlVerbatim
    /\ (~validateSvnUrl(call.path) /\ validatePath(call.path)) => InfoPathNormalized

\* C9: getInfo tries the URL rule first: a string validateSvnUrl accepts is
\* appended verbatim and never fails as an invalid path; a non-empty string
\* it rejects and validatePath accepts is appended in normalized form.
C9_InfoRouting ==
  (call.op = "getInfo" /\ call.path # Undefined) =>
    /\ InfoUrlVerbatim
    /\ (call.path # <<>> /\ ~validateSvnUrl(call.path) /\ validatePath(call.path))
         => InfoPathNormalized

\* C9 witness: getInfo of a URL spawned info <url> and failed in the subprocess
C9_Witness ==
  /\ call.op = "getInfo" /\ call.path # Undefined /\ validateSvnUrl(call.path)
  /\ pc = "done" /\ outcome.kind = "error"
  /\ procs[1].args[2] = call.path

\* validity as the claim words it: none of the six characters, and no colon
\* but the one of a single-letter drive prefix
ValidAsStated(s) ==
  \A i \in 1..Len(s) :
    \/ s[i] \notin {"<", ">", "\"", "|", "?", "*", ":"}
    \/ s[i] = ":" /\ i = 2 /\ s[1] \in Letters

\* the same, the drive prefix being a letter, a colon and a slash or backslash
ValidWithSeparator(s) ==
  \A i \in 1..Len(s) :
    \/ s[i] \notin {"<", ">", "\"", "|", "?", "*", ":"}
    \/ s[i] = ":" /\ i = 2 /\ s[1] \in Letters /\ Len(s) >= 3 /\ s[3] \in {"\\", "/"}

\* C10 as stated: validatePath rejects exactly the strings with one of
\* < > " | ? * or a colon other than the colon of a leading drive letter.
C10_ValidatePathAsStated ==
  result.fn = "validatePath" => (result.value <=> ValidAsStated(input))

\* C10: validatePath rejects exactly the strings with one of < > " | ? * or
\* a colon other than the colon of a leading drive letter that a slash or
\* backslash follows.
C10_ValidatePath ==
  result.fn = "validatePath" => (result.value <=> ValidWithSeparator(input))

\* C10 witness: C:\a was validated and accepted
C10_Witness ==
  /\ result.fn = "validatePath"
  /\ input = <<"C", ":", "\\", "a">>
  /\ result.value

----------------------------------------------------------------------------
(* The two validators together *)

\* C11: validateSvnUrl and validatePath never both accept the same string.
C11_ValidatorsDisjoint ==
  result.fn = "validators" => ~(result.url /\ result.value)

\* C11 witness: http://a went through both: accepted as a URL, rejected as a path
C11_Witness ==
  /\ result.fn = "validators"
  /\ input = <<"http", ":", "/", "/", "a">>
  /\ result.url /\ ~result.value

----------------------------------------------------------------------------
(* Properties of error classification *)

\* the methods whose catch block calls handleSvnError
ClassifyingOps == {"getInfo", "getStatus", "getLog"}

\* the invocation the finished call got its error from
LastPromise == procs[Len(procs)].promise

\* the text says the credentials are exhausted
SaysCredentialsExhausted(text) ==
  \/ Includes(text, <<"E215004">>)
  \/ Includes(text, <<"No more credentials">>)
  \/ Includes(text, <<"we tried too many times">>)

\* C12: a failure whose error text has E215004, 'No more credentials' or
\* 'we tried too many times' fails the call with the message
\* 'Demasiados intentos de autenticacion fallidos', also when the text has
\* 'Authentication failed' as well.
C12_AuthenticationExhausted ==
  (pc = "done" /\ call.op \in ClassifyingOps /\ procs # <<>>
   /\ LastPromise.state = "rejected" /\ LastPromise.stderr # Undefined
   /\ SaysCredentialsExhausted(LastPromise.stderr)) =>
    /\ outcome.kind = "error"
    /\ Includes(outcome.message, <<"Demasiados intentos de autenticacion fallidos">>)

\* the patterns of the classification rules, in their order
RulePatterns ==
  << {"E155007", "not a working copy"},
     {"E175002", "Unable to connect"},
     {"E170001", "Authentication failed"},
     {"E155036", "working copy locked"},
     {"E200030", "sqlite"} >>

\* the message of rule k
RuleMessage(k, cfg) ==
  CASE k = 1 -> NotWorkingCopyMessage(cfg)
    [] k = 2 -> ConnectionMessage
    [] k = 3 -> AuthenticationMessage
    [] k = 4 -> LockedMessage
    [] k = 5 -> DatabaseMessage

\* the text matches rule k
MatchesRule(k, text) == \E pat \in RulePatterns[k] : Includes(text, <<pat>>)

MatchesSomeRule(text) == \E k \in 1..Len(RulePatterns) : MatchesRule(k, text)

\* the executable could not be started: the 'error' event, or the shell's
\* exit code for a command it did not find
CannotStart(promise) ==
  /\ promise.state = "rejected"
  /\ \/ promise.code = 127
     \/ Includes(promise.message, <<"Failed to execute SVN command: ">>)

\* C13: when the executable cannot be started and no classification rule
\* matches, the call fails with the 'SVN no esta instalado' message and not
\* with the generic 'Failed to ...' one.
C13_NotInstalledMessage ==
  (pc = "done" /\ procs # <<>> /\ CannotStart(LastPromise)
   /\ ~MatchesSomeRule(LastPromise.message)
   /\ (LastPromise.stderr # Undefined =>
         /\ ~MatchesSomeRule(LastPromise.stderr)
         /\ ~SaysCredentialsExhausted(LastPromise.stderr))) =>
    /\ outcome.kind = "error"
    /\ Includes(outcome.message, <<"SVN no esta instalado">>)
    /\ ~Includes(outcome.message, <<"Failed to ">>)

\* C14: the message of a failure is that of the first rule, in the order
\* NotAWorkingCopy, ConnectionFailure, AuthenticationFailure,
\* WorkingCopyLocked, WorkingCopyDatabaseError, that its stderr matches, and
\* the generic message with the raw stderr only when its stderr matches none.
C14_FirstMatchOnStderr ==
  (pc = "done" /\ call.op \in ClassifyingOps /\ procs # <<>>
   /\ LastPromise.state = "rejected" /\ LastPromise.stderr # Undefined) =>
    /\ \A k \in 1..Len(RulePatterns) :
         (/\ MatchesRule(k, LastPromise.stderr)
          /\ \A j \in 1..(k - 1) : ~MatchesRule(j, LastPromise.stderr))
         => outcome.message = RuleMessage(k, config)
    /\ Includes(outcome.message, <<"Failed to ">>)
         => ~MatchesSomeRule(LastPromise.stderr)

----------------------------------------------------------------------------
(* Properties of the error of a failed invocation *)

\* the trimmed text of some prefix of the captured standard error
TrimmedStderrSoFar(p, text) ==
  \E k \in 0..Len(p.stderr) : text = Trim(SubSeq(p.stderr, 1, k))

\* C15: the error of every failed invocation, whether it failed by exit code,
\* by spawn failure or by timeout, carries the exit code when there is one,
\* the trimmed standard error captured so far and the command-line text.
C15_ErrorCarriesContext ==
  \A i \in 1..Len(procs) :
    procs[i].promise.state = "rejected" =>
      /\ procs[i].promise.command = procs[i].command
      /\ procs[i].promise.stderr # Undefined
      /\ TrimmedStderrSoFar(procs[i], procs[i].promise.stderr)
      /\ (procs[i].events[1] = "closeN" /\ procs[i].signals = 0)
           => procs[i].promise.code # NoCode

\* the remote-aware attempt of getStatus, whose failure goes to the fallback
IsRemoteAttempt(i) == call.op = "getStatus" /\ call.showAll /\ i = 1

\* C16: an invocation whose timeout elapsed fails the call that issued it with
\* a message that names the timeout and its duration, and no invocation
\* follows it; the remote-aware attempt of getStatus, which C1 hands to the
\* fallback, is left aside.
C16_TimeoutAlwaysFatal ==
  \A i \in 1..Len(procs) :
    (procs[i].events # <<>> /\ procs[i].events[1] = "timeout" /\ ~IsRemoteAttempt(i)) =>
      /\ Len(procs) = i
      /\ pc = "done"
      /\ outcome.kind = "error"
      /\ Includes(outcome.message,
                  <<"Command timeout after ", NumText(config.timeout), "ms: ">>)

----------------------------------------------------------------------------
(* Properties of the argument lists *)

\* the svn subcommand of an operation
Subcommand(op) ==
  CASE op = "getInfo" -> <<"info">>
    [] op = "getStatus" -> <<"status">>
    [] op = "getLog" -> <<"log">>
    [] op = "getDiff" -> <<"diff">>
    [] op = "checkout" -> <<"checkout">>
    [] op = "update" -> <<"update">>
    [] op = "add" -> <<"add">>
    [] op = "commit" -> <<"commit">>
    [] op = "delete" -> <<"delete">>
    [] op = "revert" -> <<"revert">>
    [] op = "cleanup" -> <<"cleanup">>
    [] op = "clearSvnCredentials" -> <<"auth">>

\* the authentication flags, as the claim lists them
AuthFlags(cfg, requested) ==
     (IF Truthy(cfg.username) THEN << <<"--username">>, cfg.username >> ELSE <<>>)
  \o (IF Truthy(cfg.password) THEN << <<"--password">>, cfg.password >> ELSE <<>>)
  \o << <<"--non-interactive">> >>
  \o (IF requested THEN << <<"--no-auth-cache">> >> ELSE <<>>)

\* the path and URL arguments of a call, as they are handed over
PositionalPath(path) == IF Truthy(path) THEN <<normalizePath(path)>> ELSE <<>>

Positionals(c) ==
  CASE c.op = "getInfo" ->
         IF Truthy(c.path) /\ validateSvnUrl(c.path) THEN <<c.path>> ELSE PositionalPath(c.path)
    [] c.op \in {"getStatus", "getLog", "update", "cleanup"} -> PositionalPath(c.path)
    [] c.op = "checkout" -> <<c.url>> \o PositionalPath(c.path)
    [] c.op \in {"add", "delete", "revert"} -> NormalizeAll(c.paths)
    [] c.op = "commit" ->
         IF c.paths # <<>> THEN NormalizeAll(c.paths) ELSE NormalizeAll(c.targets)
    [] OTHER -> <<>>

\* the last n tokens of a list
LastTokens(tokens, n) == SubSeq(tokens, Len(tokens) - n + 1, Len(tokens))

Option(set, tokens) == [set |-> set, tokens |-> tokens]

RECURSIVE TokensOf(_)
TokensOf(options) ==
  IF options = <<>> THEN <<>>
  ELSE (IF Head(options).set THEN Head(options).tokens ELSE <<>>) \o TokensOf(Tail(options))

\* the options of checkout, update and commit, in the order of the option table
TableOptions(c) ==
  CASE c.op = "checkout" ->
         << Option(Truthy(c.revision), << <<"--revision">>, c.revision >>),
            Option(Truthy(c.depth), << <<"--depth">>, c.depth >>),
            Option(c.force, << <<"--force">> >>),
            Option(c.ignoreExternals, << <<"--ignore-externals">> >>) >>
    [] c.op = "update" ->
         << Option(Truthy(c.revision), << <<"--revision">>, c.revision >>),
            Option(c.force, << <<"--force">> >>),
            Option(c.ignoreExternals, << <<"--ignore-externals">> >>),
            Option(Truthy(c.acceptConflicts), << <<"--accept">>, c.acceptConflicts >>) >>
    [] c.op = "commit" ->
         << Option(Truthy(c.message), << <<"--message">>, c.message >>),
            Option(Truthy(c.file), << <<"--file">>, normalizePath(c.file) >>),
            Option(c.force, << <<"--force">> >>),
            Option(c.keepLocks, << <<"--keep-locks">> >>),
            Option(c.noUnlock, << <<"--no-unlock">> >>) >>

\* the options of add and delete in the order of the option table
DocumentedOptions(c) ==
  CASE c.op = "add" ->
         << Option(c.force, << <<"--force">> >>),
            Option(c.noIgnore, << <<"--no-ignore">> >>),
            Option(c.parents, << <<"--parents">> >>),
            Option(c.autoProps, << <<"--auto-props">> >>),
            Option(c.noAutoProps, << <<"--no-auto-props">> >>) >>
    [] c.op = "delete" ->
         << Option(Truthy(c.message), << <<"--message">>, c.message >>),
            Option(c.force, << <<"--force">> >>),
            Option(c.keepLocal, << <<"--keep-local">> >>) >>
    [] OTHER -> TableOptions(c)

\* the options of add and delete in the order their flags are found in
PushedOptions(c) ==
  CASE c.op = "add" ->
         << Option(c.force, << <<"--force">> >>),
            Option(c.noIgnore, << <<"--no-ignore">> >>),
            Option(c.autoProps, << <<"--auto-props">> >>),
            Option(c.noAutoProps, << <<"--no-auto-props">> >>),
            Option(c.parents, << <<"--parents">> >>) >>
    [] c.op = "delete" ->
         << Option(c.force, << <<"--force">> >>),
            Option(c.keepLocal, << <<"--keep-local">> >>),
            Option(Truthy(c.message), << <<"--message">>, c.message >>) >>
    [] OTHER -> TableOptions(c)

OptionOps == {"checkout", "update", "add", "commit", "delete"}

\* the argument list is the subcommand, the tokens of the set options in the
\* given order and the positional arguments, and has no empty token
ArgsAre(options) ==
  /\ procs[1].args = <<Subcommand(call.op)>> \o TokensOf(options) \o Positionals(call)
  /\ \A k \in 1..Len(procs[1].args) : procs[1].args[k] # <<>>

\* C18 as stated: one flag, with its value, for each option that is set, in
\* the order of the option table, and no token for an option that is not.
C18_FlagsInTableOrder ==
  (call.op \in OptionOps /\ procs # <<>>) => ArgsAre(DocumentedOptions(call))

\* C18: one flag, with its value, for each option that is set and no token
\* for an option that is not, in a fixed order: that of the option table for
\* checkout, update and commit; force, noIgnore, autoProps, noAutoProps,
\* parents for add; force, keepLocal, message for delete.
C18_OneFlagPerOption ==
  (call.op \in OptionOps /\ procs # <<>>) => ArgsAre(PushedOptions(call))

\* C18 witness: delete with force and a message but without keepLocal
C18_Witness ==
  /\ call.op = "delete" /\ call.force /\ ~call.keepLocal /\ Truthy(call.message)
  /\ procs # <<>>
  /\ procs[1].args =
       << <<"delete">>, <<"--force">>, <<"--message">>, call.message,
          normalizePath(call.paths[1]) >>

----------------------------------------------------------------------------
(* Properties of the tool handlers *)

----------------------------------------------------------------------------
(* Properties of the configuration *)

\* the first of an override, an environment value and a default that is given
Precedence(override, environment, default) ==
  IF Truthy(override) THEN override
  ELSE IF Truthy(environment) THEN environment
  ELSE default

\* C20: each field of the configuration is the override when one is given,
\* else the environment value when one is given, else the default, and the
\* timeout is a positive number of milliseconds.
C20_ConfigResolved ==
  result.fn = "createSvnConfig" =>
    /\ config.svnPath =
         Precedence(input.overrides.svnPath, input.env.SVN_PATH, <<"svn">>)
    /\ config.workingDirectory =
         Precedence(input.overrides.workingDirectory, input.env.SVN_WORKING_DIRECTORY, Cwd)
    /\ config.timeout.set /\ ~config.timeout.nan /\ config.timeout.n > 0

----------------------------------------------------------------------------
(* Properties of diagnoseCommands *)

\* the entries the catches of the first k probes have pushed, in probe order
RECURSIVE ProbeErrors(_)
ProbeErrors(k) ==
  IF k = 0 THEN <<>>
  ELSE IF procs[k].promise.state = "rejected"
       THEN Append(ProbeErrors(k - 1),
                   DiagnoseLabel(DiagnoseStages[k]) \o procs[k].promise.message)
       ELSE ProbeErrors(k - 1)

\* the number of flags of a results object that are false
FalseFlags(results) ==
  Cardinality({f \in {"statusLocal", "statusRemote", "logBasic"} :
                 ~(CASE f = "statusLocal" -> results.statusLocal
                     [] f = "statusRemote" -> results.statusRemote
                     [] f = "logBasic" -> results.logBasic)})

\* C21: diagnoseCommands runs its three probes one after another, each
\* whatever the earlier ones ended with; it returns success = true with one
\* flag per probe that is true iff the probe's promise resolved, one errors
\* entry per failed probe in probe order, and the configured working directory
\* as workingCopyPath.
C21_DiagnoseRunsAllProbes ==
  call.op = "diagnoseCommands" =>
    /\ pc \in {"await", "done"}
    /\ \A k \in 1..Len(procs) : procs[k].args = DiagnoseArgs(DiagnoseStages[k])
    /\ \A k \in 1..(Len(procs) - 1) : procs[k].promise.state # "pending"
    /\ pc = "await" => procs[Len(procs)].promise.state = "pending"
    /\ pc = "done" =>
         /\ Len(procs) = 3
         /\ outcome.kind = "ok" /\ outcome.success
         /\ outcome.results.statusLocal <=> procs[1].promise.state = "resolved"
         /\ outcome.results.statusRemote <=> procs[2].promise.state = "resolved"
         /\ outcome.results.logBasic <=> procs[3].promise.state = "resolved"
         /\ outcome.results.errors = ProbeErrors(3)
         /\ Len(outcome.results.errors) = FalseFlags(outcome.results)
         /\ outcome.results.workingCopyPath = config.workingDirectory

\* C21 witness: the first probe failed, the later two still ran, and only the
\* second succeeded
C21_Witness ==
  /\ call.op = "diagnoseCommands" /\ pc = "done"
  /\ ~outcome.results.statusLocal
  /\ outcome.results.statusRemote
  /\ ~outcome.results.logBasic
  /\ Len(outcome.results.errors) = 2

----------------------------------------------------------------------------
(* Properties of healthCheck *)

\* C22: healthCheck always returns an envelope with the working directory;
\* its command is 'svn --version', with success = false, exactly when the
\* installation probe failed, and 'health-check' otherwise; a successful
\* envelope reports svnAvailable, a version string and two booleans, and
\* repositoryAccessible only for a working copy, after an info probe.
C22_HealthCheckEnvelope ==
  call.op = "healthCheck" =>
    /\ pc \in {"await", "done"}
    /\ pc = "done" =>
         /\ outcome.kind = "ok"
         /\ outcome.workingDirectory = config.workingDirectory
         /\ Truthy(outcome.workingDirectory)
         /\ outcome.success \in BOOLEAN
         /\ outcome.command =
              IF procs[1].promise.state = "rejected"
              THEN <<"svn --version">> ELSE <<"health-check">>
         /\ outcome.command = <<"svn --version">> => ~outcome.success
         /\ outcome.success =>
              /\ outcome.health.svnAvailable
              /\ outcome.health.version # Undefined
              /\ outcome.health.version = procs[2].promise.data
              /\ outcome.health.workingCopyValid \in BOOLEAN
              /\ outcome.health.repositoryAccessible \in BOOLEAN
              /\ outcome.health.repositoryAccessible =>
                   outcome.health.workingCopyValid
              /\ outcome.health.workingCopyValid <=> Len(procs) = 3
              /\ outcome.health.repositoryAccessible <=>
                   (Len(procs) = 3 /\ procs[3].promise.state = "resolved")
              /\ Len(procs) = 3 => procs[3].args = << <<"info">> >>

\* C22 witness: svn answered, the directory is a working copy and the info
\* probe failed, so the report says the repository is not accessible
C22_Witness ==
  /\ call.op = "healthCheck" /\ pc = "done"
  /\ outcome.success
  /\ outcome.health.workingCopyValid
  /\ ~outcome.health.repositoryAccessible
  /\ procs[3].promise.state = "rejected"

----------------------------------------------------------------------------
(* Properties of the parsers *)

\* the status each character of the table stands for
StatusTable ==
  [c \in {" ", "A", "D", "M", "R", "C", "X", "I", "?", "!", "~"} |->
     CASE c = " " -> "none"       [] c = "A" -> "added"
       [] c = "D" -> "deleted"    [] c = "M" -> "modified"
       [] c = "R" -> "replaced"   [] c = "C" -> "conflicted"
       [] c = "X" -> "external"   [] c = "I" -> "ignored"
       [] c = "?" -> "unversioned" [] c = "!" -> "missing"
       [] c = "~" -> "obstructed"]

\* the lines of the text, and those of them that yield a record
InputLines == Split(input, "\n")

IsBlank(line) == \A k \in 1..Len(line) : line[k] \in WhiteSpace

RecordLines == {k \in 1..Len(InputLines) :
                  ~IsBlank(InputLines[k]) /\ Len(InputLines[k]) >= 8}

\* the place in the result of the record of line k
RecordIndex(k) == Cardinality({j \in RecordLines : j <= k})

\* C23: parseStatusOutput returns, in input order, one record per non-blank
\* line of at least 8 characters and nothing for the other lines; the status
\* is the table image of the first character, 'unknown' outside the table,
\* and the path is the rest of the line after column 8, trimmed.
C23_StatusRecords ==
  result.fn = "parseStatusOutput" =>
    /\ Len(result.records) = Cardinality(RecordLines)
    /\ input = <<>> => result.records = <<>>
    /\ \A k \in RecordLines :
         LET line == InputLines[k]
             rec == result.records[RecordIndex(k)]
         IN  /\ rec.status = IF line[1] \in DOMAIN StatusTable
                             THEN StatusTable[line[1]] ELSE "unknown"
             /\ rec.path = Trim(SubSeq(line, 9, Len(line)))

\* C23 witness: a text with a short line and two lines of full width, the
\* second with a character outside the table
C23_Witness ==
  /\ result.fn = "parseStatusOutput"
  /\ Len(InputLines) = 2 /\ Cardinality(RecordLines) = 2
  /\ result.records[1].status = "modified"
  /\ result.records[2].status = "unknown"
  /\ result.records[2].path = <<"a", "/", "b">>

\* the blocks of the log text: what stands between separator lines
InputBlocks == SplitLog(input)

\* the lines of a block without its leading and trailing blank lines
BlockLines(block) == Split(Trim(block), "\n")

\* a block whose first line matches the header pattern
IsWellFormed(block) == HeaderMatch(BlockLines(block)[1]).matched

\* a well-formed block with nothing but blank lines after its header
HasEmptyMessage(block) ==
  /\ IsWellFormed(block)
  /\ \A k \in 2..Len(BlockLines(block)) : IsBlank(BlockLines(block)[k])

\* C24: every well-formed block whose message is empty yields an entry for
\* its revision with the placeholder as message, and no entry has an empty
\* message.
C24_EmptyMessagePlaceholder ==
  result.fn = "parseLogOutput" =>
    /\ \A e \in 1..Len(result.entries) : result.entries[e].message # <<>>
    /\ \A b \in 1..Len(InputBlocks) :
         HasEmptyMessage(InputBlocks[b]) =>
           \E e \in 1..Len(result.entries) :
             /\ result.entries[e].revision =
                  parseInt(HeaderMatch(BlockLines(InputBlocks[b])[1]).revision)
             /\ result.entries[e].message = NoMessageText

\* the blocks that yield an entry according to the header rule
WellFormedBlocks == {b \in 1..Len(InputBlocks) : IsWellFormed(InputBlocks[b])}

\* the place in the result of the entry of block b
EntryIndex(b) == Cardinality({j \in WellFormedBlocks : j <= b})

\* C25: parseLogOutput returns, in input order, one entry per block whose
\* first line matches the header pattern and none for the other blocks; the
\* empty text yields no entry.
C25_OneEntryPerBlock ==
  result.fn = "parseLogOutput" =>
    /\ Len(result.entries) = Cardinality(WellFormedBlocks)
    /\ input = <<>> => result.entries = <<>>
    /\ \A b \in WellFormedBlocks :
         result.entries[EntryIndex(b)].revision =
           parseInt(HeaderMatch(BlockLines(InputBlocks[b])[1]).revision)

\* C26: in the record parseInfoOutput returns, revision and lastChangedRev
\* are integers whenever they are set; a value that is not an integer never
\* ends up in the record.
C26_NumericFieldsAreIntegers ==
  result.fn = "parseInfoOutput" =>
    /\ result.info.revision.set => ~result.info.revision.nan
    /\ result.info.lastChangedRev.set => ~result.info.lastChangedRev.nan

----------------------------------------------------------------------------
(* Termination *)

\* C27: the promise of every invocation is settled once its timer has fired
\* or was cleared, every invocation eventually settles whatever its child
\* does, and every method that was called eventually returns.
C27_EventuallySettles ==
  /\ [](\A i \in 1..Len(procs) :
          procs[i].timer # "armed" => procs[i].promise.state # "pending")
  /\ \A i \in Invocations :
       (i \in 1..Len(procs)) ~>
         (i \in 1..Len(procs) /\ procs[i].promise.state # "pending")
  /\ (pc = "await") ~> (pc = "done" /\ result.fn = "tool")

\* C27 witness: a child that never exited and never closed its streams; its
\* timer fired, the promise was rejected and the method returned
C27_Witness ==
  /\ pc = "done" /\ procs # <<>>
  /\ \A i \in 1..Len(procs) :
       /\ ~procs[i].closed /\ ~procs[i].errored
       /\ procs[i].timer = "fired"
       /\ procs[i].promise.state = "rejected"

----------------------------------------------------------------------------
(* Independence of concurrent invocations *)

RECURSIVE MadeOf(_, _, _)
\* s is the concatenation of at most n chunks of the set
MadeOf(s, chunks, n) ==
  \/ s = <<>>
  \/ /\ n > 0
     /\ \E c \in chunks :
          /\ Len(c) <= Len(s)
          /\ SubSeq(s, 1, Len(c)) = c
          /\ MadeOf(SubSeq(s, Len(c) + 1, Len(s)), chunks, n - 1)

\* the promise of an invocation says what its own events, its own streams
\* and its own timer say
OwnResult(p) ==
  /\ MadeOf(p.stdout, OwnStdout(p.args), p.datas)
  /\ p.promise.state = "pending" <=> p.events = <<>>
  /\ p.promise.state = "resolved" =>
       /\ Head(p.events) = "close0"
       /\ p.promise.data = Trim(p.stdout)
       /\ p.promise.command = p.command
  /\ p.promise.state = "rejected" =>
       CASE Head(p.events) = "closeN" ->
              /\ p.promise.code # NoCode
              /\ p.promise.message = ExitFailureMessage(p.promise.code, p.command)
              /\ p.promise.stderr = Trim(p.stderr)
         [] Head(p.events) = "error" ->
              p.promise.message = SpawnFailureMessage(SpawnErrorText)
         [] Head(p.events) = "timeout" ->
              /\ p.timer = "fired" /\ p.signals = 1
              /\ p.promise.message = TimeoutMessage(config.timeout, p.command)
         [] OTHER -> FALSE
  /\ p.timer = "fired" <=> \E k \in 1..Len(p.events) : p.events[k] = "timeout"
  /\ p.signals = (IF p.timer = "fired" THEN 1 ELSE 0)

\* C28: with several invocations in flight and their events interleaved in
\* any order, every event changes one invocation only, and the result of each
\* invocation is built from its own child's output and exit code and its own
\* timer.
C28_InvocationsIndependent ==
  /\ [](\A i \in 1..Len(procs) : OwnResult(procs[i]))
  /\ [][/\ Len(procs') >= Len(procs)
        /\ Cardinality({j \in 1..Len(procs) : procs'[j] # procs[j]}) <= 1]_vars

\* C28 witness: two invocations in flight together; the first was rejected by
\* its timer and has no output, the second resolved with its own output
C28_Witness ==
  /\ Len(procs) >= 2
  /\ procs[1].promise.state = "rejected" /\ procs[1].timer = "fired"
  /\ procs[1].events = <<"timeout">> /\ procs[1].stdout = <<>>
  /\ procs[2].promise.state = "resolved"
  /\ procs[2].promise.data = <<"Revision", ":", " ", "4", "2">>
  /\ procs[2].timer = "cleared"

----------------------------------------------------------------------------
(* The timer after the child has ended *)

\* the child of invocation p has emitted close or error
Ended(p) == p.closed \/ p.errored

\* C29: once the child of an invocation has emitted close or error its timer
\* is no longer armed, no termination signal is sent for it afterwards and its
\* promise does not turn into a timeout error; an invocation sends the
\* termination signal at most once.
C29_TimerCancelled ==
  /\ [](\A i \in 1..Len(procs) :
          /\ Ended(procs[i]) => procs[i].timer # "armed"
          /\ procs[i].signals <= 1
          /\ \A k, l \in 1..Len(procs[i].events) :
               k < l /\ procs[i].events[k] # "timeout" => procs[i].events[l] # "timeout")
  /\ [][\A i \in 1..Len(procs) :
          Ended(procs[i]) =>
            /\ procs'[i].signals = procs[i].signals
            /\ procs'[i].timer = procs[i].timer
            /\ procs'[i].promise = procs[i].promise]_vars

\* C29 witness: the child closed before its timer fired; the timer was
\* cleared and no signal was sent
C29_Witness ==
  \E i \in 1..Len(procs) :
    /\ procs[i].closed
    /\ procs[i].timer = "cleared"
    /\ procs[i].signals = 0
    /\ procs[i].promise.state # "pending"

----------------------------------------------------------------------------
(* The subprocesses of one getStatus call *)

\* the child of invocation p was started and has not ended
Alive(p) == ~p.closed /\ ~p.errored

\* C30: of the subprocesses one getStatus(showAll = true) call has spawned at
\* most one is alive at any time; the local-only fallback is spawned only
\* after the --show-updates process has ended.
C30_OneSubprocessAlive ==
  call.op = "getStatus" /\ call.showAll =>
    /\ Cardinality({i \in 1..Len(procs) : Alive(procs[i])}) <= 1
    /\ Len(procs) = 2 => Ended(procs[1])

====
